---- MODULE Spec2Model ----
(***************************************************************************)
(* A model of pdbufr/bufr_structure.py: the Level Assigner                 *)
(* (message_structure), the Key Filter (filter_keys), the Structure Cache  *)
(* (make_message_uid, filter_keys_cached) and the Observation Extractor    *)
(* (extract_observations).                                                 *)
(*                                                                         *)
(* Texts.  A Python key string is a sequence of tokens: "#" is a token, a  *)
(* rank numeral is a token, a bare element name is a token and the suffix  *)
(* "->code" is a token.  "#1#latitude->code" is                            *)
(* <<"#", "1", "#", "latitude", "->code">>.  String operations             *)
(* (rpartition, slicing, concatenation, int(), f-strings) act on tokens.   *)
(*                                                                         *)
(* Values.  Every decoded value is a record [t, n, s, a]: t is the Python  *)
(* type ("int", "float", "None", "str", "array"), n the number of an int   *)
(* or float, s the digits of a str, a the elements of an array.            *)
(***************************************************************************)
EXTENDS Integers, Sequences, FiniteSets, TLC

VARIABLES
    pc,                  \* position of the running call; "yielded", "emitted" and "final": the
                         \* generator is suspended at the yield of line 56, 147 and 176
    message,             \* the message (a Mapping): [keys, items]
    include,             \* the include tuple handed to filter_keys
    pos,                 \* message_structure: index of the next key of "for key in message"
    level,               \* message_structure: level
    coords,              \* message_structure: coords (OrderedDict name -> level)
    structure,           \* the (level, key) pairs message_structure has yielded
    filtered_keys,       \* the BufrKeys filter_keys has yielded / the list given to extract_observations
    filters,             \* extract_observations: filters (name -> accepted values)
    base_observation,    \* extract_observations: base_observation
    subset_count,        \* extract_observations: subset_count
    subset,              \* extract_observations: subset
    idx,                 \* extract_observations: index of the next bufr_key of "for bufr_key in filtered_keys"
    current_observation, \* extract_observations: current_observation (OrderedDict)
    current_levels,      \* extract_observations: current_levels
    failed_match_level,  \* extract_observations: failed_match_level (NoLevel is None)
    value_cache,         \* extract_observations: value_cache
    records,             \* the observations extract_observations has yielded, each with its subset
    skipped,             \* history: the keys line 139 skipped, each with the step that failed the filter
    cache,               \* filter_keys_cached: cache (tuple -> stored list object)
    heap,                \* the list objects allocated by filter_keys_cached, by object id
    calls,               \* history: the filter_keys_cached calls made on the cache
    last,                \* history: the last filter_keys_cached call and what it returned
    bufr_file,           \* filter_stream: the messages of the source, in order
    columns,             \* filter_stream: columns
    required_columns,    \* filter_stream: required_columns, as the caller gave it
    prefilter_headers,   \* filter_stream: prefilter_headers
    count,               \* filter_stream: count, the messages pulled from the source
    unpacked,            \* history: the counts of the messages filter_stream set "unpack" on
    observations,        \* filter_stream: what the extract_observations generator of line 249 has yet to yield
    out                  \* the records filter_stream has yielded, each with its count

vars == <<pc, message, include, pos, level, coords, structure, filtered_keys,
          filters, base_observation, subset_count, subset, idx,
          current_observation, current_levels, failed_match_level, value_cache,
          records, skipped, cache, heap, calls, last,
          bufr_file, columns, required_columns, prefilter_headers, count,
          unpacked, observations, out>>

structVars == <<pos, level, coords, structure>>
extractVars == <<filters, base_observation, subset_count, subset, idx,
                 current_observation, current_levels, failed_match_level,
                 value_cache, records, skipped>>
cacheVars == <<cache, heap, calls, last>>
streamVars == <<bufr_file, columns, required_columns, prefilter_headers, count,
                unpacked, observations, out>>

-----------------------------------------------------------------------------
(* Bounds of the model. *)

\* longest generated key stream of the Level Assigner specification
MaxKeys == 5
\* longest generated key stream of the Observation Extractor specification
MaxObsKeys == 5
\* most filter_keys_cached calls made on one cache
MaxCalls == 3
\* the subsets of a compressed message, and its data keys
MaxSubsets == 2
MaxSubsetKeys == 2
\* longest key stream of the classification specification
MaxClassKeys == 4
\* most messages in the source of filter_stream
MaxMessages == 3

-----------------------------------------------------------------------------
(* Python values and texts. *)

IntVal(n) == [t |-> "int", n |-> n, s |-> <<>>, a |-> <<>>]
FloatVal(n) == [t |-> "float", n |-> n, s |-> <<>>, a |-> <<>>]
NoneVal == [t |-> "None", n |-> 0, s |-> <<>>, a |-> <<>>]
StrVal(digits) == [t |-> "str", n |-> 0, s |-> digits, a |-> <<>>]
\* an array of scalars, each [t, n]
ArrayVal(elems) == [t |-> "array", n |-> 0, s |-> <<>>, a |-> elems]
ListVal(elems) == [t |-> "list", n |-> 0, s |-> <<>>, a |-> elems]
Scalar(v) == [t |-> v.t, n |-> v.n]
FromScalar(e) == [t |-> e.t, n |-> e.n, s |-> <<>>, a |-> <<>>]

\* the decimal numerals of the ranks the model uses; int() and f"{rank}" convert
NumeralText == <<"0", "1", "2", "3", "4", "5", "6", "7", "8", "9", "10", "11", "12">>
Numeral(n) == NumeralText[n + 1]
IntOfNumeral(t) == CHOOSE n \in 0..(Len(NumeralText) - 1) : NumeralText[n + 1] = t

\* int(digits) for a string of decimal digits
RECURSIVE IntOfDigits(_)
IntOfDigits(d) ==
    IF d = <<>> THEN 0 ELSE 10 * IntOfDigits(SubSeq(d, 1, Len(d) - 1)) + d[Len(d)]

SetMax(S) == CHOOSE x \in S : \A y \in S : y <= x

\* text.rpartition("#"): <<head, sep, tail>>, split at the last "#"
rpartition(text) ==
    LET hashes == {i \in 1..Len(text) : text[i] = "#"}
    IN  IF hashes = {}
        THEN <<<<>>, <<>>, text>>
        ELSE LET i == SetMax(hashes)
             IN  <<SubSeq(text, 1, i - 1), <<"#">>, SubSeq(text, i + 1, Len(text))>>

-----------------------------------------------------------------------------
(* OrderedDict: a sequence of [k, v] entries in insertion order. *)

DictHas(d, k) == \E i \in 1..Len(d) : d[i].k = k
DictGet(d, k) == d[CHOOSE i \in 1..Len(d) : d[i].k = k].v
\* d[k] = v: a present key keeps its place, a new key goes last
DictSet(d, k, v) ==
    IF DictHas(d, k)
    THEN [i \in 1..Len(d) |-> IF d[i].k = k THEN [k |-> k, v |-> v] ELSE d[i]]
    ELSE Append(d, [k |-> k, v |-> v])
\* d.popitem(): the last entry leaves
DictPop(d) == SubSeq(d, 1, Len(d) - 1)
DictLast(d) == d[Len(d)]

-----------------------------------------------------------------------------
(* The message: a Mapping.  keys is the order "for key in message" yields, *)
(* items is what message[k] returns; a k outside DOMAIN items raises       *)
(* KeyError (eccodes: KeyValueNotFoundError).                              *)

MsgHas(m, k) == k \in DOMAIN m.items
MsgGet(m, k) == m.items[k]

-----------------------------------------------------------------------------
(* BufrKey *)

from_level_key(lvl, key) ==
    LET parts == rpartition(key)
        rank_text == parts[1]
        sep == parts[2]
        name == parts[3]
    IN  [level |-> lvl,
         rank |-> IF sep = <<"#">> THEN IntOfNumeral(rank_text[2]) ELSE 0,
         name |-> name]

BufrKey_key(bk) ==
    (IF bk.rank # 0 THEN <<"#", Numeral(bk.rank), "#">> ELSE <<>>) \o bk.name

-----------------------------------------------------------------------------
(* message_structure *)

IS_KEY_COORD == (<<"subsetNumber">> :> TRUE) @@ (<<"operator">> :> FALSE)

\* a slip: the table of fixed names is not consulted
is_coord_by_code(m, key) ==
    IF MsgHas(m, key \o <<"->code">>)
    THEN IntOfDigits(SubSeq(MsgGet(m, key \o <<"->code">>).s, 1, 3)) < 10
    ELSE FALSE

\* a slip: every key with a code is a coordinate
is_coord_if_coded(m, key) ==
    IF rpartition(key)[3] \in DOMAIN IS_KEY_COORD
    THEN IS_KEY_COORD[rpartition(key)[3]]
    ELSE MsgHas(m, key \o <<"->code">>)

\* lines 42-51: is_coord of one key
is_coord(m, key) ==
    LET name == rpartition(key)[3]
        codeKey == key \o <<"->code">>
    IN  IF name \in DOMAIN IS_KEY_COORD
        THEN IS_KEY_COORD[name]
        ELSE IF MsgHas(m, codeKey)
             THEN IntOfDigits(SubSeq(MsgGet(m, codeKey).s, 1, 3)) < 10
             ELSE FALSE

\* a slip: "if" for "while", one popitem whatever it removes
PopCoordsOnce(cs, lvl, name) ==
    IF DictHas(cs, name)
    THEN [coords |-> DictPop(cs), level |-> DictLast(cs).v]
    ELSE [coords |-> cs, level |-> lvl]

\* lines 53-54: while is_coord and name in coords: _, level = coords.popitem()
RECURSIVE PopCoords(_, _, _)
PopCoords(cs, lvl, name) ==
    IF DictHas(cs, name)
    THEN PopCoords(DictPop(cs), DictLast(cs).v, name)
    ELSE [coords |-> cs, level |-> lvl]

\* a slip: the level counter is not taken back when entries are popped
StructureYieldKeepsLevel(m, st, key) ==
    LET name == rpartition(key)[3]
        popped == IF is_coord(m, key) THEN PopCoords(st.coords, st.level, name)
                  ELSE [coords |-> st.coords, level |-> st.level]
    IN  [yield |-> <<popped.level, key>>, coords |-> popped.coords, level |-> st.level]

\* lines 42-56: one iteration of "for key in message" up to its yield, on the
\* generator's state st = [level, coords]; the result holds the pair yielded
\* at line 56 and the state the generator is suspended in
StructureYield(m, st, key) ==
    LET name == rpartition(key)[3]
        popped == IF is_coord(m, key) THEN PopCoords(st.coords, st.level, name)
                  ELSE [coords |-> st.coords, level |-> st.level]
    IN  [yield |-> <<popped.level, key>>, coords |-> popped.coords, level |-> popped.level]

\* a slip: lines 59-60 run for every key, not under "if is_coord"
StructureAfterOpensAll(m, st, key) ==
    [coords |-> DictSet(st.coords, rpartition(key)[3], st.level),
     level |-> st.level + 1]

\* lines 58-60: the iteration after its yield, when the generator is resumed
StructureAfter(m, st, key) ==
    IF is_coord(m, key)
    THEN [coords |-> DictSet(st.coords, rpartition(key)[3], st.level),
          level |-> st.level + 1]
    ELSE [coords |-> st.coords, level |-> st.level]

\* lines 42-60: one whole iteration, for a consumer that runs the generator
\* to its end
StructureStep(m, st, key) ==
    LET y == StructureYield(m, st, key)
        a == StructureAfter(m, [level |-> y.level, coords |-> y.coords], key)
    IN  [yield |-> y.yield, coords |-> a.coords, level |-> a.level]

\* a slip: the test on the full ranked key is left out
IncludedByName(inc, bufr_key) ==
    \/ inc = <<>>
    \/ \E i \in 1..Len(inc) : inc[i] = bufr_key.name

\* line 68: the test of filter_keys on one BufrKey
Included(inc, bufr_key) ==
    \/ inc = <<>>
    \/ \E i \in 1..Len(inc) : inc[i] = bufr_key.name
    \/ \E i \in 1..Len(inc) : inc[i] = BufrKey_key(bufr_key)

\* list(filter_keys(m, inc)): the generators run to exhaustion
RECURSIVE FilterKeysFrom(_, _, _, _)
FilterKeysFrom(m, inc, st, i) ==
    IF i > Len(m.keys) THEN <<>>
    ELSE LET nx == StructureStep(m, st, m.keys[i])
             bufr_key == from_level_key(nx.yield[1], nx.yield[2])
             rest == FilterKeysFrom(m, inc, [level |-> nx.level, coords |-> nx.coords], i + 1)
         IN  IF Included(inc, bufr_key) THEN <<bufr_key>> \o rest ELSE rest

filter_keys(m, inc) == FilterKeysFrom(m, inc, [level |-> 0, coords |-> <<>>], 1)

-----------------------------------------------------------------------------
(* Messages.  An element is [name, code, ranked]: the bare name, the digits *)
(* its "->code" attribute returns (<<>>: the key has no code) and whether   *)
(* the decoder ranks it.  The decoder gives the n-th key of a ranked name   *)
(* the rank n.                                                              *)

Ranked(n, name) == <<"#", Numeral(n), "#", name>>
CodeKey(key) == key \o <<"->code">>

Elem(name, code, ranked) == [name |-> name, code |-> code, ranked |-> ranked]
Edition == Elem("edition", <<>>, FALSE)
SubsetNumber == Elem("subsetNumber", <<>>, TRUE)
Latitude == Elem("latitude", <<0, 0, 5, 0, 0, 2>>, TRUE)
Pressure == Elem("pressure", <<0, 0, 5, 0, 0, 2>>, TRUE)
\* no message of the tests gives temperature a code
Temperature == Elem("temperature", <<>>, TRUE)

RankAt(es, i) == Cardinality({j \in 1..i : es[j].name = es[i].name})
KeyAt(es, i) ==
    IF es[i].ranked THEN Ranked(RankAt(es, i), es[i].name) ELSE <<es[i].name>>

\* no key text twice: a Mapping holds a key once
WellFormed(es) ==
    \A i, j \in 1..Len(es) : (i # j /\ ~es[i].ranked) => es[i].name # es[j].name

\* the message of the element stream es with the value vals[i] under its i-th
\* key; the codes are attributes: message[k + "->code"] returns them, iteration
\* does not yield them
MkMessage(es, vals) ==
    LET n == Len(es)
        dataKeys == {KeyAt(es, i) : i \in 1..n}
        codeKeys == {CodeKey(KeyAt(es, i)) : i \in {j \in 1..n : es[j].code # <<>>}}
    IN  [keys |-> [i \in 1..n |-> KeyAt(es, i)],
         items |-> [k \in dataKeys \cup codeKeys |->
                      IF k \in dataKeys
                      THEN vals[CHOOSE i \in 1..n : KeyAt(es, i) = k]
                      ELSE StrVal(es[CHOOSE i \in 1..n : CodeKey(KeyAt(es, i)) = k].code)]]

\* a Python dict given as its <<key, value>> entries: every entry is iterated
DictMessage(entries) ==
    [keys |-> [i \in 1..Len(entries) |-> entries[i][1]],
     items |-> [k \in {entries[i][1] : i \in 1..Len(entries)} |->
                  entries[CHOOSE i \in 1..Len(entries) : entries[i][1] = k][2]]]

Streams(elems, maxLen) ==
    {es \in UNION {[1..n -> elems] : n \in 0..maxLen} : WellFormed(es)}

\* the message of test_message_structure and test_filter_keys
TestStructureMessage ==
    DictMessage(<<
        <<<<"edition">>, IntVal(1)>>,
        <<Ranked(1, "year"), IntVal(2020)>>,
        <<Ranked(1, "subsetNumber"), IntVal(1)>>,
        <<Ranked(1, "latitude"), FloatVal(43)>>,
        <<Ranked(1, "temperature"), FloatVal(300)>>,
        <<Ranked(2, "latitude"), FloatVal(42)>>,
        <<Ranked(2, "temperature"), FloatVal(310)>>,
        <<Ranked(2, "subsetNumber"), IntVal(2)>>,
        <<Ranked(3, "temperature"), FloatVal(300)>>,
        <<CodeKey(Ranked(1, "latitude")), StrVal(<<0, 0, 5, 0, 0, 2>>)>>,
        <<CodeKey(Ranked(2, "latitude")), StrVal(<<0, 0, 5, 0, 0, 2>>)>> >>)

StructureElems == {Edition, SubsetNumber, Latitude, Pressure, Temperature}

StructureMessages ==
    {TestStructureMessage}
    \cup {MkMessage(es, [i \in 1..Len(es) |-> IntVal(RankAt(es, i))]) :
            es \in Streams(StructureElems, MaxKeys)}

\* sorted(): Python orders strings by code point, "#" before every letter;
\* SortedTexts lists the texts the model sorts in that order
SortedTexts ==
    <<Ranked(1, "latitude"), Ranked(1, "temperature"), Ranked(2, "latitude"),
      Ranked(2, "temperature"), <<"count">>, <<"edition">>, <<"latitude">>,
      <<"numberOfSubsets">>, <<"pressure">>, <<"subsetNumber">>, <<"temperature">>>>
RECURSIVE SortedFrom(_, _)
SortedFrom(S, i) ==
    IF i > Len(SortedTexts) THEN <<>>
    ELSE (IF SortedTexts[i] \in S THEN <<SortedTexts[i]>> ELSE <<>>) \o SortedFrom(S, i + 1)
\* tuple(sorted(S))
sorted(S) == SortedFrom(S, 1)

IncludeSets ==
    {{}, {<<"edition">>}, {<<"temperature">>, Ranked(1, "latitude")},
     {<<"latitude">>, <<"pressure">>, Ranked(2, "temperature")}}

NoLevel == -1

-----------------------------------------------------------------------------
(* The Level Assigner and the Key Filter, one key per step. *)

ExtractIdle ==
    /\ filters = <<>> /\ base_observation = <<>> /\ subset_count = 0
    /\ subset = 0 /\ idx = 0 /\ current_observation = <<>>
    /\ current_levels = <<>> /\ failed_match_level = NoLevel
    /\ value_cache = <<>> /\ records = <<>> /\ skipped = <<>>

CacheIdle ==
    /\ cache = <<>> /\ heap = <<>> /\ calls = <<>> /\ last = <<>>

StreamIdle ==
    /\ bufr_file = <<>> /\ columns = <<>>
    /\ required_columns = [kind |-> "bool", value |-> TRUE, names |-> {}]
    /\ prefilter_headers = FALSE /\ count = 0 /\ unpacked = <<>> /\ out = <<>>
    /\ observations = [out |-> <<>>, raised |-> FALSE]

Init ==
    /\ pc = "structure"
    /\ message \in StructureMessages
    /\ include \in {sorted(S) : S \in IncludeSets}
    /\ pos = 1 /\ level = 0 /\ coords = <<>> /\ structure = <<>>
    /\ filtered_keys = <<>>
    /\ ExtractIdle /\ CacheIdle /\ StreamIdle

\* filter_keys pulls one (level, key) from message_structure (lines 41-56) and
\* yields its BufrKey when the include test passes (lines 66-69);
\* message_structure is suspended at the yield of line 56
FilterKeysNext ==
    /\ pc = "structure"
    /\ pos <= Len(message.keys)
    /\ LET y == StructureYield(message, [level |-> level, coords |-> coords],
                               message.keys[pos])
           bufr_key == from_level_key(y.yield[1], y.yield[2])
       IN  /\ level' = y.level
           /\ coords' = y.coords
           /\ structure' = Append(structure, y.yield)
           /\ filtered_keys' = IF Included(include, bufr_key)
                               THEN Append(filtered_keys, bufr_key)
                               ELSE filtered_keys
    /\ pc' = "yielded"
    /\ UNCHANGED <<message, include, pos>>
    /\ UNCHANGED extractVars /\ UNCHANGED cacheVars
    /\ UNCHANGED streamVars

\* message_structure is resumed: lines 58-60, then the next key
FilterKeysResume ==
    /\ pc = "yielded"
    /\ LET a == StructureAfter(message, [level |-> level, coords |-> coords],
                               message.keys[pos])
       IN  /\ level' = a.level
           /\ coords' = a.coords
    /\ pos' = pos + 1
    /\ pc' = "structure"
    /\ UNCHANGED <<message, include, structure, filtered_keys>>
    /\ UNCHANGED extractVars /\ UNCHANGED cacheVars
    /\ UNCHANGED streamVars

\* "for key in message" is exhausted: both generators return
FilterKeysStop ==
    /\ pc = "structure"
    /\ pos > Len(message.keys)
    /\ pc' = "done"
    /\ UNCHANGED <<message, include, filtered_keys>>
    /\ UNCHANGED structVars /\ UNCHANGED extractVars /\ UNCHANGED cacheVars
    /\ UNCHANGED streamVars

Next == FilterKeysNext \/ FilterKeysResume \/ FilterKeysStop

Spec == Init /\ [][Next]_vars

(* The Level Assigner on keys of every classification: the two fixed names *)
(* with and without a code, and codes on both sides of class 10.            *)

SubsetNumberCoded == Elem("subsetNumber", <<0, 3, 1, 0, 0, 1>>, TRUE)
Operator == Elem("operator", <<>>, TRUE)
OperatorCoded == Elem("operator", <<0, 0, 1, 0, 3, 1>>, TRUE)
NonCoordinatePressure == Elem("nonCoordinatePressure", <<0, 1, 0, 0, 0, 4>>, TRUE)

ClassifyElems ==
    {Edition, SubsetNumber, SubsetNumberCoded, Operator, OperatorCoded,
     Latitude, NonCoordinatePressure, Temperature}

ClassifyMessages ==
    {MkMessage(es, [i \in 1..Len(es) |-> IntVal(RankAt(es, i))]) :
        es \in Streams(ClassifyElems, MaxClassKeys)}

InitClassify ==
    /\ pc = "structure"
    /\ message \in ClassifyMessages
    /\ include = <<>>
    /\ pos = 1 /\ level = 0 /\ coords = <<>> /\ structure = <<>>
    /\ filtered_keys = <<>>
    /\ ExtractIdle /\ CacheIdle /\ StreamIdle

SpecClassify == InitClassify /\ [][Next]_vars

-----------------------------------------------------------------------------
(* extract_observations *)

\* eccodes.CODES_MISSING_DOUBLE, the decoder's missing value for floats
CODES_MISSING_DOUBLE == -100000

\* bufr_filters.BufrFilter.match(value): a predicate is the set of the numbers
\* it accepts (a set filter, or a range filter over the model's numbers)
Match(accept, value) == value.t \in {"int", "float"} /\ value.n \in accept

\* all(name in current_observation for name in filters)
AllFiltersPresent(flt, obs) == \A i \in 1..Len(flt) : DictHas(obs, flt[i].k)

\* lines 143-144 and 150-151: the test on level, current_levels[-1] and name;
\* it is evaluated on a non-empty current_levels
ResetCond(obs, levels, lvl, name) ==
    \/ lvl < levels[Len(levels)]
    \/ (lvl = levels[Len(levels)] /\ DictHas(obs, name))

\* lines 149-154: the backtracking loop; err: current_levels[-1] was read on
\* an empty list (IndexError)
RECURSIVE Backtrack(_, _, _, _)
Backtrack(obs, levels, lvl, name) ==
    IF Len(obs) = 0 THEN [obs |-> obs, levels |-> levels, err |-> FALSE]
    ELSE IF Len(levels) = 0 THEN [obs |-> obs, levels |-> levels, err |-> TRUE]
    ELSE IF ResetCond(obs, levels, lvl, name)
         THEN Backtrack(DictPop(obs), SubSeq(levels, 1, Len(levels) - 1), lvl, name)
         ELSE [obs |-> obs, levels |-> levels, err |-> FALSE]

\* a slip: every subset reads the element of the first subset
SubsetValueFirst(fetched, n_subsets, sub) ==
    LET indexed == IF fetched.t = "array" /\ Len(fetched.a) = n_subsets
                   THEN FromScalar(fetched.a[1])
                   ELSE fetched
    IN  IF indexed.t = "float" /\ indexed.n = CODES_MISSING_DOUBLE
        THEN NoneVal
        ELSE indexed

\* lines 156-162: the value of a key for a subset, from the fetched value
SubsetValue(fetched, n_subsets, sub) ==
    LET indexed == IF fetched.t = "array" /\ Len(fetched.a) = n_subsets
                   THEN FromScalar(fetched.a[sub + 1])
                   ELSE fetched
    IN  IF indexed.t = "float" /\ indexed.n = CODES_MISSING_DOUBLE
        THEN NoneVal
        ELSE indexed

\* line 138: the key is skipped
SkipKey(failed, lvl) == failed # NoLevel /\ lvl > failed

\* a slip: the value is stored whatever its filter answered
FilterPassesAlways(flt, name, value) == TRUE

\* lines 164-171: the key is stored unless its name has a filter that fails
FilterPasses(flt, name, value) ==
    ~DictHas(flt, name) \/ Match(DictGet(flt, name), value)

\* lines 164-168: failed_match_level after the filter of name saw value
FailedAfter(flt, failed, lvl, name, value) ==
    IF DictHas(flt, name)
    THEN (IF Match(DictGet(flt, name), value) THEN NoLevel ELSE lvl)
    ELSE failed

Snapshot(obs, sub, final) == [obs |-> obs, subset |-> sub, final |-> final]

\* a slip: a compressed message without numberOfSubsets counts one subset
ExtractBeginDefaultsCount ==
    /\ pc = "extract"
    /\ value_cache' = <<>>
    /\ subset_count' = IF MsgHas(message, <<"compressedData">>)
                          /\ MsgGet(message, <<"compressedData">>).n # 0
                          /\ MsgHas(message, <<"numberOfSubsets">>)
                       THEN MsgGet(message, <<"numberOfSubsets">>).n
                       ELSE 1
    /\ pc' = "subset"
    /\ subset' = 0
    /\ UNCHANGED <<message, include, filtered_keys, filters, base_observation, idx,
                   current_observation, current_levels, failed_match_level,
                   records, skipped>>
    /\ UNCHANGED structVars /\ UNCHANGED cacheVars
    /\ UNCHANGED streamVars

\* lines 119-127: value_cache, is_compressed and subset_count
ExtractBegin ==
    /\ pc = "extract"
    /\ value_cache' = <<>>
    /\ LET is_compressed == IF MsgHas(message, <<"compressedData">>)
                            THEN MsgGet(message, <<"compressedData">>).n # 0
                            ELSE FALSE
       IN  IF is_compressed
           THEN IF MsgHas(message, <<"numberOfSubsets">>)
                THEN /\ subset_count' = MsgGet(message, <<"numberOfSubsets">>).n
                     /\ pc' = "subset"
                ELSE /\ subset_count' = subset_count
                     /\ pc' = "raised"
           ELSE /\ subset_count' = 1
                /\ pc' = "subset"
    /\ subset' = 0
    /\ UNCHANGED <<message, include, filtered_keys, filters, base_observation, idx,
                   current_observation, current_levels, failed_match_level,
                   records, skipped>>
    /\ UNCHANGED structVars /\ UNCHANGED cacheVars
    /\ UNCHANGED streamVars

\* a slip: current_levels starts empty
SubsetBeginNoBottom ==
    /\ pc = "subset"
    /\ subset < subset_count
    /\ current_observation' = base_observation
    /\ current_levels' = <<>>
    /\ failed_match_level' = NoLevel
    /\ idx' = 1
    /\ pc' = "keys"
    /\ UNCHANGED <<message, include, filtered_keys, filters, base_observation,
                   subset_count, subset, value_cache, records, skipped>>
    /\ UNCHANGED structVars /\ UNCHANGED cacheVars
    /\ UNCHANGED streamVars

\* a slip: failed_match_level survives into the next subset
SubsetBeginKeepsFailure ==
    /\ pc = "subset"
    /\ subset < subset_count
    /\ current_observation' = base_observation
    /\ current_levels' = <<0>>
    /\ idx' = 1
    /\ pc' = "keys"
    /\ UNCHANGED <<message, include, filtered_keys, filters, base_observation,
                   subset_count, subset, value_cache, records, skipped,
                   failed_match_level>>
    /\ UNCHANGED structVars /\ UNCHANGED cacheVars
    /\ UNCHANGED streamVars

\* lines 129-133: the next subset starts
SubsetBegin ==
    /\ pc = "subset"
    /\ subset < subset_count
    /\ current_observation' = base_observation
    /\ current_levels' = <<0>>
    /\ failed_match_level' = NoLevel
    /\ idx' = 1
    /\ pc' = "keys"
    /\ UNCHANGED <<message, include, filtered_keys, filters, base_observation,
                   subset_count, subset, value_cache, records, skipped>>
    /\ UNCHANGED structVars /\ UNCHANGED cacheVars
    /\ UNCHANGED streamVars

\* lines 142-145: the test before the yield of line 147, for a key that is
\* not skipped; "raise": current_levels[-1] is read on an empty list
YieldTest(flt, obs, levels, lvl, name) ==
    IF ~AllFiltersPresent(flt, obs) THEN "no"
    ELSE IF Len(levels) = 0 THEN "raise"
    ELSE IF ResetCond(obs, levels, lvl, name) THEN "yield"
    ELSE "no"

\* lines 134-147: the iteration of "for bufr_key in filtered_keys" reaches
\* the yield of line 147 and the generator is suspended there, or line 143
\* raises IndexError
ExtractYield ==
    /\ pc = "keys"
    /\ idx <= Len(filtered_keys)
    /\ ~SkipKey(failed_match_level, filtered_keys[idx].level)
    /\ LET test == YieldTest(filters, current_observation, current_levels,
                             filtered_keys[idx].level, filtered_keys[idx].name)
       IN  /\ test # "no"
           /\ IF test = "yield"
              THEN /\ records' = Append(records, Snapshot(current_observation, subset, FALSE))
                   /\ pc' = "emitted"
              ELSE /\ records' = records
                   /\ pc' = "raised"
    /\ UNCHANGED <<message, include, filtered_keys, filters, base_observation,
                   subset_count, subset, idx, current_observation, current_levels,
                   failed_match_level, value_cache, skipped>>
    /\ UNCHANGED structVars /\ UNCHANGED cacheVars
    /\ UNCHANGED streamVars

\* lines 134-172 without the yield: the key is skipped at line 139, or the
\* iteration runs lines 149-172, after the yield of line 147 when it was
\* reached
ExtractKey ==
    /\ idx <= Len(filtered_keys)
    /\ \/ pc = "emitted"
       \/ /\ pc = "keys"
          /\ \/ SkipKey(failed_match_level, filtered_keys[idx].level)
             \/ YieldTest(filters, current_observation, current_levels,
                          filtered_keys[idx].level, filtered_keys[idx].name) = "no"
    /\ LET bufr_key == filtered_keys[idx]
           lvl == bufr_key.level
           name == bufr_key.name
           key == BufrKey_key(bufr_key)
           bt == Backtrack(current_observation, current_levels, lvl, name)
           fetched == IF DictHas(value_cache, key) THEN DictGet(value_cache, key)
                      ELSE MsgGet(message, key)
           value == SubsetValue(fetched, subset_count, subset)
       IN  IF pc = "keys" /\ SkipKey(failed_match_level, lvl)
           THEN /\ skipped' = Append(skipped, [subset |-> subset, idx |-> idx])
                /\ idx' = idx + 1
                /\ pc' = "keys"
                /\ UNCHANGED <<current_observation, current_levels,
                               failed_match_level, value_cache>>
           ELSE IF bt.err
           THEN \* current_levels[-1] raises IndexError at line 150, after
                \* lines 153-154 popped every level
                /\ pc' = "raised"
                /\ current_observation' = bt.obs
                /\ current_levels' = bt.levels
                /\ UNCHANGED <<idx, failed_match_level, value_cache, skipped>>
           ELSE IF ~DictHas(value_cache, key) /\ ~MsgHas(message, key)
           THEN \* message[bufr_key.key] raises KeyError at line 157, after
                \* the loop of lines 149-154 popped
                /\ pc' = "raised"
                /\ current_observation' = bt.obs
                /\ current_levels' = bt.levels
                /\ UNCHANGED <<idx, failed_match_level, value_cache, skipped>>
           ELSE /\ value_cache' = DictSet(value_cache, key, fetched)
                /\ failed_match_level' =
                       FailedAfter(filters, failed_match_level, lvl, name, value)
                /\ IF FilterPasses(filters, name, value)
                   THEN /\ current_observation' = DictSet(bt.obs, name, value)
                        /\ current_levels' = Append(bt.levels, lvl)
                   ELSE /\ current_observation' = bt.obs
                        /\ current_levels' = bt.levels
                /\ idx' = idx + 1
                /\ pc' = "keys"
                /\ UNCHANGED skipped
    /\ UNCHANGED <<message, include, filtered_keys, filters, base_observation,
                   subset_count, subset, records>>
    /\ UNCHANGED structVars /\ UNCHANGED cacheVars
    /\ UNCHANGED streamVars

\* lines 174-176: the keys are exhausted; the last observation is yielded and
\* the generator is suspended at line 176, or the subset ends without it
SubsetEnd ==
    /\ pc = "keys"
    /\ idx > Len(filtered_keys)
    /\ IF AllFiltersPresent(filters, current_observation)
       THEN /\ records' = Append(records, Snapshot(current_observation, subset, TRUE))
            /\ subset' = subset
            /\ pc' = "final"
       ELSE /\ records' = records
            /\ subset' = subset + 1
            /\ pc' = "subset"
    /\ UNCHANGED <<message, include, filtered_keys, filters, base_observation,
                   subset_count, idx, current_observation, current_levels,
                   failed_match_level, value_cache, skipped>>
    /\ UNCHANGED structVars /\ UNCHANGED cacheVars
    /\ UNCHANGED streamVars

\* the generator is resumed after the yield of line 176: the subset is over
SubsetNext ==
    /\ pc = "final"
    /\ subset' = subset + 1
    /\ pc' = "subset"
    /\ UNCHANGED <<message, include, filtered_keys, filters, base_observation,
                   subset_count, idx, current_observation, current_levels,
                   failed_match_level, value_cache, records, skipped>>
    /\ UNCHANGED structVars /\ UNCHANGED cacheVars
    /\ UNCHANGED streamVars

\* line 129: range(subset_count) is exhausted, the generator returns
ExtractReturn ==
    /\ pc = "subset"
    /\ subset >= subset_count
    /\ pc' = "done"
    /\ UNCHANGED <<message, include, filtered_keys>>
    /\ UNCHANGED structVars /\ UNCHANGED extractVars /\ UNCHANGED cacheVars
    /\ UNCHANGED streamVars

(* The inputs of extract_observations. *)

ObsElems == {Latitude, Pressure, Temperature}

\* the numbers the generated filters accept
Accepted == 1..50
\* the value under the i-th key: its rank, or past the accepted range
PassValue(es, i) == IntVal(RankAt(es, i))
FailValue(es, i) == IntVal(100 + RankAt(es, i))

\* the filters of a call: none, or one on a name of the message or on "count"
FilterChoices ==
    {<<>>} \cup {<<[k |-> <<e.name>>, v |-> Accepted]>> : e \in ObsElems}
           \cup {<<[k |-> <<"count">>, v |-> {1}]>>}

BaseChoices == {<<>>, <<[k |-> <<"count">>, v |-> IntVal(1)]>>}
\* a base record of two names
TwoEntryBase ==
    <<[k |-> <<"count">>, v |-> IntVal(1)], [k |-> <<"edition">>, v |-> IntVal(3)]>>

\* the value assignments of a stream: a key of a filtered name passes or fails
\* its filter, every other key holds its rank
ValueChoices(es, flt) ==
    {vals \in [1..Len(es) -> {"pass", "fail"}] :
        \A i \in 1..Len(es) : vals[i] = "fail" => DictHas(flt, <<es[i].name>>)}

ObsMessage(es, choice) ==
    MkMessage(es, [i \in 1..Len(es) |->
                     IF choice[i] = "pass" THEN PassValue(es, i) ELSE FailValue(es, i)])

\* the dicts of test_extract_observations_simple / _medium and _complex: a
\* dict iterates its "->code" entries with the rest
TestSimpleMessage ==
    DictMessage(<<
        <<Ranked(1, "pressure"), IntVal(100)>>,
        <<Ranked(1, "temperature"), FloatVal(300)>>,
        <<Ranked(2, "pressure"), IntVal(90)>>,
        <<Ranked(2, "temperature"), FloatVal(CODES_MISSING_DOUBLE)>>,
        <<CodeKey(Ranked(1, "pressure")), StrVal(<<0, 0, 5, 0, 0, 2>>)>>,
        <<CodeKey(Ranked(2, "pressure")), StrVal(<<0, 0, 5, 0, 0, 2>>)>> >>)
TestComplexMessage ==
    DictMessage(<<
        <<Ranked(1, "latitude"), IntVal(42)>>,
        <<Ranked(1, "pressure"), IntVal(100)>>,
        <<Ranked(1, "temperature"), FloatVal(300)>>,
        <<Ranked(2, "pressure"), IntVal(90)>>,
        <<Ranked(2, "temperature"), FloatVal(CODES_MISSING_DOUBLE)>>,
        <<Ranked(2, "latitude"), IntVal(43)>>,
        <<Ranked(3, "temperature"), FloatVal(290)>>,
        <<CodeKey(Ranked(1, "latitude")), StrVal(<<0, 0, 5, 0, 0, 2>>)>>,
        <<CodeKey(Ranked(1, "pressure")), StrVal(<<0, 0, 5, 0, 0, 2>>)>>,
        <<CodeKey(Ranked(2, "latitude")), StrVal(<<0, 0, 5, 0, 0, 2>>)>>,
        <<CodeKey(Ranked(2, "pressure")), StrVal(<<0, 0, 5, 0, 0, 2>>)>> >>)
\* list(filter_keys(message))[:-drop], the filtered_keys the tests build
TestFilteredKeys(m, drop) ==
    SubSeq(filter_keys(m, <<>>), 1, Len(filter_keys(m, <<>>)) - drop)
\* a message whose temperature repeats inside nested coordinate groups:
\* latitude 0, temperature 1, pressure 1, temperature 2, temperature 2, latitude 0
NestedRepeatMessage ==
    MkMessage(<<Latitude, Temperature, Pressure, Temperature, Temperature, Latitude>>,
              <<IntVal(1), IntVal(1), IntVal(1), IntVal(2), IntVal(3), IntVal(2)>>)
\* BufrFilter(slice(95, None)) and BufrFilter(slice(95, 100)) on the test values
TestPressureFilter == <<[k |-> <<"pressure">>, v |-> 95..100]>>
TestLatitudeFilter == <<[k |-> <<"latitude">>, v |-> 0..100]>>

InitExtract ==
    /\ pc = "extract"
    /\ \/ \E es \in Streams(ObsElems, MaxObsKeys) :
            /\ filters \in FilterChoices
            /\ \E choice \in ValueChoices(es, filters) : message = ObsMessage(es, choice)
            /\ base_observation \in BaseChoices
            /\ filtered_keys = filter_keys(message, <<>>)
       \/ /\ message = TestSimpleMessage
          /\ filters \in {<<>>, TestPressureFilter}
          /\ base_observation \in BaseChoices
          /\ filtered_keys = TestFilteredKeys(message, 2)
       \/ /\ message = TestComplexMessage
          /\ filters \in {<<>>, TestLatitudeFilter}
          /\ base_observation = <<>>
          /\ filtered_keys = TestFilteredKeys(message, 2)
       \/ /\ message = NestedRepeatMessage
          /\ filters = <<>>
          /\ base_observation \in BaseChoices \cup {TwoEntryBase}
          /\ filtered_keys = filter_keys(message, <<>>)
    /\ include = <<>>
    /\ pos = 0 /\ level = 0 /\ coords = <<>> /\ structure = <<>>
    /\ subset_count = 0 /\ subset = 0 /\ idx = 0
    /\ current_observation = <<>> /\ current_levels = <<>>
    /\ failed_match_level = NoLevel /\ value_cache = <<>>
    /\ records = <<>> /\ skipped = <<>>
    /\ CacheIdle /\ StreamIdle

NextExtract ==
    ExtractBegin \/ SubsetBegin \/ ExtractYield \/ ExtractKey \/ SubsetEnd
    \/ SubsetNext \/ ExtractReturn

SpecExtract == InitExtract /\ [][NextExtract]_vars

(* extract_observations as a function: the records a call yields, in       *)
(* order, and whether it ends by raising.                                   *)

\* lines 135-172 for one key, on the state st of the subset sub
KeyStep(m, flt, n_subsets, sub, st, bufr_key) ==
    LET lvl == bufr_key.level
        name == bufr_key.name
        key == BufrKey_key(bufr_key)
        present == AllFiltersPresent(flt, st.obs)
        bt == Backtrack(st.obs, st.levels, lvl, name)
        value == SubsetValue(MsgGet(m, key), n_subsets, sub)
    IN  IF SkipKey(st.failed, lvl) THEN st
        ELSE IF present /\ Len(st.levels) = 0 THEN [st EXCEPT !.raised = TRUE]
        ELSE LET emitted == IF present /\ ResetCond(st.obs, st.levels, lvl, name)
                            THEN Append(st.out, st.obs) ELSE st.out
             IN  \* IndexError at line 150, or KeyError at line 157
                 IF bt.err \/ ~MsgHas(m, key)
                 THEN [st EXCEPT !.obs = bt.obs, !.levels = bt.levels,
                                 !.out = emitted, !.raised = TRUE]
                 ELSE [obs |-> IF FilterPasses(flt, name, value)
                               THEN DictSet(bt.obs, name, value) ELSE bt.obs,
                       levels |-> IF FilterPasses(flt, name, value)
                                  THEN Append(bt.levels, lvl) ELSE bt.levels,
                       failed |-> FailedAfter(flt, st.failed, lvl, name, value),
                       out |-> emitted, raised |-> FALSE]

\* lines 134-172: the keys from the i-th on
RECURSIVE KeysFrom(_, _, _, _, _, _, _)
KeysFrom(m, fk, flt, n_subsets, sub, st, i) ==
    IF i > Len(fk) \/ st.raised THEN st
    ELSE KeysFrom(m, fk, flt, n_subsets, sub, KeyStep(m, flt, n_subsets, sub, st, fk[i]), i + 1)

\* lines 174-176: the last observation of a subset that ended in the state st
SubsetEndRecords(flt, st) ==
    [out |-> IF ~st.raised /\ AllFiltersPresent(flt, st.obs)
             THEN Append(st.out, st.obs) ELSE st.out,
     raised |-> st.raised]

\* lines 130-176 for the subset sub: the records it yields
SubsetRecords(m, fk, flt, base, n_subsets, sub) ==
    SubsetEndRecords(flt,
        KeysFrom(m, fk, flt, n_subsets, sub,
                 [obs |-> base, levels |-> <<0>>, failed |-> NoLevel,
                  out |-> <<>>, raised |-> FALSE], 1))

\* the records r of a subset, followed by those of the later subsets
RecordsThen(r, rest) == [out |-> r.out \o rest.out, raised |-> rest.raised]

\* line 129: the subsets from sub on; r holds the records of the subset sub
RECURSIVE SubsetsFrom(_, _, _, _, _, _)
SubsetsAfter(r, m, fk, flt, base, n_subsets, sub) ==
    IF r.raised THEN r
    ELSE RecordsThen(r, SubsetsFrom(m, fk, flt, base, n_subsets, sub + 1))
SubsetsFrom(m, fk, flt, base, n_subsets, sub) ==
    IF sub >= n_subsets THEN [out |-> <<>>, raised |-> FALSE]
    ELSE SubsetsAfter(SubsetRecords(m, fk, flt, base, n_subsets, sub),
                      m, fk, flt, base, n_subsets, sub)

\* lines 119-127: is_compressed
is_compressed(m) ==
    IF MsgHas(m, <<"compressedData">>) THEN MsgGet(m, <<"compressedData">>).n # 0
    ELSE FALSE

\* lines 113-176
extract_observations(m, fk, flt, base) ==
    IF is_compressed(m)
    THEN IF MsgHas(m, <<"numberOfSubsets">>)
         THEN SubsetsFrom(m, fk, flt, base, MsgGet(m, <<"numberOfSubsets">>).n, 0)
         ELSE [out |-> <<>>, raised |-> TRUE]
    ELSE SubsetsFrom(m, fk, flt, base, 1, 0)

(* Compressed messages: compressedData and numberOfSubsets lead the keys,    *)
(* as in test_extract_observations_subsets_simple, and a data key holds a    *)
(* scalar or an array with one element per subset.                           *)

CompressedData == Elem("compressedData", <<>>, FALSE)
NumberOfSubsets == Elem("numberOfSubsets", <<>>, FALSE)
SubsetElems == {Pressure, Temperature}

\* the value under a data key of rank r in a message of n subsets
ValueKinds == {"scalar", "missing", "ints", "floats", "fails", "long"}
KindValue(kind, n, r) ==
    CASE kind = "scalar" -> IntVal(r)
      [] kind = "missing" -> FloatVal(CODES_MISSING_DOUBLE)
      [] kind = "ints" -> ArrayVal([i \in 1..n |-> [t |-> "int", n |-> 10 * r + i]])
      \* np.array([300.0, eccodes.CODES_MISSING_DOUBLE]): the last is missing
      [] kind = "floats" ->
             ArrayVal([i \in 1..n |->
                 [t |-> "float", n |-> IF i = n THEN CODES_MISSING_DOUBLE ELSE 10 * r + i]])
      \* the element of the first subset is outside every filter's range
      [] kind = "fails" ->
             ArrayVal([i \in 1..n |->
                 [t |-> "int", n |-> IF i = 1 THEN 100 + r ELSE 10 * r + i]])
      \* an array that is not one element per subset
      [] kind = "long" -> ArrayVal([i \in 1..(n + 1) |-> [t |-> "int", n |-> 10 * r + i]])

\* the header of the message: compressed with its subset count, compressed
\* without numberOfSubsets, or compressedData = 0
HeaderKinds == {"compressed", "nocount", "flag0"}
SubsetHeader(hdr, n) ==
    CASE hdr = "compressed" -> [es |-> <<CompressedData, NumberOfSubsets>>,
                                vals |-> <<IntVal(1), IntVal(n)>>]
      [] hdr = "nocount" -> [es |-> <<CompressedData>>, vals |-> <<IntVal(1)>>]
      [] hdr = "flag0" -> [es |-> <<CompressedData, NumberOfSubsets>>,
                           vals |-> <<IntVal(0), IntVal(n)>>]

SubsetMessage(hdr, n, es, kinds) ==
    LET h == SubsetHeader(hdr, n)
    IN  MkMessage(h.es \o es,
                  h.vals \o [i \in 1..Len(es) |-> KindValue(kinds[i], n, RankAt(es, i))])

\* the message of test_extract_observations_subsets_simple
TestSubsetsMessage ==
    DictMessage(<<
        <<<<"compressedData">>, IntVal(1)>>,
        <<<<"numberOfSubsets">>, IntVal(2)>>,
        <<Ranked(1, "pressure"),
          ArrayVal(<<[t |-> "int", n |-> 100], [t |-> "int", n |-> 90]>>)>>,
        <<Ranked(1, "temperature"),
          ArrayVal(<<[t |-> "float", n |-> 300],
                     [t |-> "float", n |-> CODES_MISSING_DOUBLE]>>)>>,
        <<CodeKey(Ranked(1, "pressure")), StrVal(<<0, 0, 5, 0, 0, 2>>)>> >>)

\* a compressed message of two subsets whose temperature lies at level 2 and,
\* after latitude reopens, at level 1; the second temperature of the first
\* subset is outside every filter's range
DeepThenShallowMessage ==
    SubsetMessage("compressed", 2,
                  <<Latitude, Pressure, Temperature, Latitude, Temperature>>,
                  <<"ints", "ints", "ints", "ints", "fails">>)

\* a compressed message of two subsets whose include keeps a temperature of
\* level 2 and, after latitude reopens, a pressure of level 1: the kept keys
\* share no name and the level drops between them
LevelDropMessage ==
    SubsetMessage("compressed", 2,
                  <<Latitude, Pressure, Temperature, Latitude, Pressure>>,
                  <<"ints", "ints", "ints", "ints", "ints">>)
LevelDropInclude == <<Ranked(2, "pressure"), <<"temperature">>>>

SubsetFilterChoices ==
    {<<>>} \cup {<<[k |-> <<e.name>>, v |-> Accepted]>> : e \in SubsetElems}

InitSubsets ==
    /\ pc = "extract"
    /\ \/ \E hdr \in HeaderKinds : \E n \in 1..MaxSubsets :
          \E es \in Streams(SubsetElems, MaxSubsetKeys) :
          \E kinds \in [1..Len(es) -> ValueKinds] :
            /\ filters \in SubsetFilterChoices
            \* BufrFilter.match is applied to scalars
            /\ \A i \in 1..Len(es) :
                 (kinds[i] = "long" \/ hdr = "flag0") => ~DictHas(filters, <<es[i].name>>)
            /\ message = SubsetMessage(hdr, n, es, kinds)
            /\ include = <<>>
            /\ filtered_keys = filter_keys(message, include)
       \/ /\ message = TestSubsetsMessage
          /\ filters \in {<<>>, TestPressureFilter}
          /\ include = <<>>
          /\ filtered_keys = TestFilteredKeys(message, 1)
       \/ /\ message = DeepThenShallowMessage
          /\ filters \in SubsetFilterChoices
          /\ include = <<>>
          /\ filtered_keys = filter_keys(message, include)
       \/ /\ message = LevelDropMessage
          /\ filters \in SubsetFilterChoices
          /\ include \in {<<>>, LevelDropInclude}
          /\ filtered_keys = filter_keys(message, include)
    /\ base_observation \in BaseChoices
    /\ pos = 0 /\ level = 0 /\ coords = <<>> /\ structure = <<>>
    /\ subset_count = 0 /\ subset = 0 /\ idx = 0
    /\ current_observation = <<>> /\ current_levels = <<>>
    /\ failed_match_level = NoLevel /\ value_cache = <<>>
    /\ records = <<>> /\ skipped = <<>>
    /\ CacheIdle /\ StreamIdle

SpecSubsets == InitSubsets /\ [][NextExtract]_vars

-----------------------------------------------------------------------------
(* make_message_uid and filter_keys_cached *)

\* an element of a cache key tuple: an int, None or a str
IntEl(n) == [t |-> "int", n |-> n, s |-> <<>>]
NoneEl == [t |-> "None", n |-> 0, s |-> <<>>]
StrEl(text) == [t |-> "str", n |-> 0, s |-> text]
\* a decoded value as a tuple element
ValueEl(v) == [t |-> v.t, n |-> v.n, s |-> <<>>]
\* tuple(v) of a list or array value
TupleOf(v) == [i \in 1..Len(v.a) |-> [t |-> v.a[i].t, n |-> v.a[i].n, s |-> <<>>]]

\* lines 76-81 read these keys without a try
UidKeys == {<<"edition">>, <<"masterTableNumber">>, <<"numberOfSubsets">>,
            <<"unexpandedDescriptors">>}
UidRaises(m) == \E k \in UidKeys : ~MsgHas(m, k)

\* a slip: the descriptors are not closed by None
make_message_uid_unclosed(m) ==
    LET descriptors == MsgGet(m, <<"unexpandedDescriptors">>)
        delayed == <<"delayedDescriptorReplicationFactor">>
    IN  <<ValueEl(MsgGet(m, <<"edition">>)), ValueEl(MsgGet(m, <<"masterTableNumber">>)),
          ValueEl(MsgGet(m, <<"numberOfSubsets">>))>>
        \o (IF descriptors.t = "int" THEN <<ValueEl(descriptors)>>
            ELSE TupleOf(descriptors))
        \o (IF ~MsgHas(m, delayed) THEN <<>>
            ELSE IF MsgGet(m, delayed).t = "int" THEN <<ValueEl(MsgGet(m, delayed))>>
            ELSE TupleOf(MsgGet(m, delayed)))

\* lines 72-97, for a message that holds the keys of UidKeys
make_message_uid(m) ==
    LET descriptors == MsgGet(m, <<"unexpandedDescriptors">>)
        delayed == <<"delayedDescriptorReplicationFactor">>
    IN  <<ValueEl(MsgGet(m, <<"edition">>)), ValueEl(MsgGet(m, <<"masterTableNumber">>)),
          ValueEl(MsgGet(m, <<"numberOfSubsets">>))>>
        \o (IF descriptors.t = "int" THEN <<ValueEl(descriptors), NoneEl>>
            ELSE TupleOf(descriptors) \o <<NoneEl>>)
        \o (IF ~MsgHas(m, delayed) THEN <<>>
            ELSE IF MsgGet(m, delayed).t = "int" THEN <<ValueEl(MsgGet(m, delayed))>>
            ELSE TupleOf(MsgGet(m, delayed)))

\* line 106: include_uid
include_uid(inc) == sorted(inc)

\* a slip: the include tuple is left out of the cache key
filtered_message_uid_no_include(m, inc) == make_message_uid(m)

\* line 107: filtered_message_uid
filtered_message_uid(m, inc) ==
    make_message_uid(m) \o [i \in 1..Len(include_uid(inc)) |-> StrEl(include_uid(inc)[i])]

\* a slip: line 109 runs on every call
CacheMissAlways(c, uid) == TRUE

\* line 108: filtered_message_uid not in cache
CacheMiss(c, uid) == ~DictHas(c, uid)

\* lines 100-110: one call on the cache; a list object is its place in heap
FilterKeysCached(m, inc) ==
    /\ pc = "cache"
    /\ Len(calls) < MaxCalls
    /\ IF UidRaises(m)
       THEN /\ pc' = "raised"
            /\ UNCHANGED <<cache, heap, last>>
       ELSE LET uid == filtered_message_uid(m, inc)
                miss == CacheMiss(cache, uid)
            IN  /\ heap' = IF miss THEN Append(heap, filter_keys(m, include_uid(inc)))
                           ELSE heap
                /\ cache' = IF miss THEN DictSet(cache, uid, Len(heap) + 1) ELSE cache
                /\ last' = <<[message |-> m, include |-> inc, hit |-> DictHas(cache, uid),
                              result |-> DictGet(cache', uid)]>>
                /\ pc' = pc
    /\ calls' = Append(calls, [message |-> m, include |-> inc])
    /\ UNCHANGED <<message, include, filtered_keys>>
    /\ UNCHANGED structVars /\ UNCHANGED extractVars
    /\ UNCHANGED streamVars

(* The messages handed to filter_keys_cached: the header of                  *)
(* test_filter_keys_cached and its variations in one field each, with the    *)
(* data keys the decoder expands the descriptors to.                         *)

Absent == [t |-> "absent", n |-> 0, s |-> <<>>, a |-> <<>>]
IntList(ns) == ListVal([i \in 1..Len(ns) |-> [t |-> "int", n |-> ns[i]]])

TestHeader ==
    [edition |-> IntVal(3), masterTableNumber |-> IntVal(0),
     unexpandedDescriptors |-> IntList(<<321212, 321213>>),
     numberOfSubsets |-> IntVal(1), delayed |-> Absent, extended |-> Absent,
     data |-> <<>>]

\* the message of a header h: the header keys in the order of the test, the
\* replication factors when present, then the data keys
HeaderMessage(h) ==
    LET head == <<<<<<"edition">>, h.edition>>,
                  <<<<"masterTableNumber">>, h.masterTableNumber>>,
                  <<<<"unexpandedDescriptors">>, h.unexpandedDescriptors>>,
                  <<<<"numberOfSubsets">>, h.numberOfSubsets>>>>
                \o (IF h.delayed = Absent THEN <<>>
                    ELSE <<<<<<"delayedDescriptorReplicationFactor">>, h.delayed>>>>)
                \o (IF h.extended = Absent THEN <<>>
                    ELSE <<<<<<"extendedDelayedDescriptorReplicationFactor">>, h.extended>>>>)
        hm == DictMessage(head)
        dm == MkMessage(h.data, [i \in 1..Len(h.data) |-> IntVal(RankAt(h.data, i))])
    IN  [keys |-> hm.keys \o dm.keys, items |-> hm.items @@ dm.items]

CacheHeaders ==
    {TestHeader,
     [TestHeader EXCEPT !.edition = IntVal(4)],
     [TestHeader EXCEPT !.masterTableNumber = IntVal(1)],
     [TestHeader EXCEPT !.numberOfSubsets = IntVal(2)],
     [TestHeader EXCEPT !.unexpandedDescriptors = IntVal(321212)],
     [TestHeader EXCEPT !.unexpandedDescriptors = IntVal(321212),
                        !.delayed = IntVal(321213)],
     \* 1 01 000, 0 31 002, 0 12 101: an extended delayed replication of
     \* temperature, decoded with the factor 1 and with the factor 2
     [TestHeader EXCEPT !.unexpandedDescriptors = IntList(<<101000, 31002, 12101>>),
                        !.extended = IntVal(1), !.data = <<Temperature>>],
     [TestHeader EXCEPT !.unexpandedDescriptors = IntList(<<101000, 31002, 12101>>),
                        !.extended = IntVal(2), !.data = <<Temperature, Temperature>>]}

CacheMessages == {HeaderMessage(h) : h \in CacheHeaders}

CacheIncludes == {{}, {<<"edition">>, <<"temperature">>}}

InitCache ==
    /\ pc = "cache"
    /\ message = <<>> /\ include = <<>> /\ filtered_keys = <<>>
    /\ pos = 0 /\ level = 0 /\ coords = <<>> /\ structure = <<>>
    /\ ExtractIdle /\ CacheIdle /\ StreamIdle

NextCache == \E m \in CacheMessages : \E inc \in CacheIncludes : FilterKeysCached(m, inc)

SpecCache == InitCache /\ [][NextCache]_vars

(* Messages that lack a header field: the message of a compressed header  *)
(* with every field, and the same without one of them.                      *)

OptionalHeaderKeys ==
    {<<"edition">>, <<"masterTableNumber">>, <<"numberOfSubsets">>,
     <<"unexpandedDescriptors">>, <<"delayedDescriptorReplicationFactor">>,
     <<"compressedData">>}

FullHeaderMessage ==
    LET hm == HeaderMessage([TestHeader EXCEPT !.numberOfSubsets = IntVal(2),
                                               !.delayed = IntList(<<2>>),
                                               !.data = <<Pressure, Temperature,
                                                          Pressure, Temperature>>])
    IN  [keys |-> <<<<"compressedData">>>> \o hm.keys,
         items |-> (<<"compressedData">> :> IntVal(1)) @@ hm.items]

\* the message m with the key k absent: iteration skips it, m[k] raises
Without(m, k) ==
    [keys |-> SelectSeq(m.keys, LAMBDA x : x # k),
     items |-> [x \in (DOMAIN m.items) \ {k} |-> m.items[x]]]

AbsentMessages == {FullHeaderMessage} \cup {Without(FullHeaderMessage, k) : k \in OptionalHeaderKeys}

\* a cache that is called, or an extraction of a message with all its keys
InitAbsent ==
    /\ \/ /\ pc = "cache"
          /\ message = <<>> /\ filtered_keys = <<>>
       \/ /\ pc = "extract"
          /\ message \in AbsentMessages
          /\ filtered_keys = filter_keys(message, <<>>)
    /\ include = <<>>
    /\ pos = 0 /\ level = 0 /\ coords = <<>> /\ structure = <<>>
    /\ ExtractIdle /\ CacheIdle /\ StreamIdle

NextAbsent ==
    \/ \E m \in AbsentMessages : \E inc \in CacheIncludes : FilterKeysCached(m, inc)
    \/ NextExtract

SpecAbsent == InitAbsent /\ [][NextAbsent]_vars

-----------------------------------------------------------------------------
(* filter_stream.  bufr_filters and bufr_read are not part of the sources:  *)
(* a compiled filter is [k, v, hi], the name, the values match accepts and  *)
(* what max() returns; filters holds compiled_filters.                      *)

\* BufrFilter.max(): the upper bound of the filter, or None
FilterMax(f) == f.hi

\* the keys a message iterates before it is unpacked: the header keys
HeaderKeys ==
    {<<"edition">>, <<"masterTableNumber">>, <<"numberOfSubsets">>,
     <<"unexpandedDescriptors">>, <<"compressedData">>}

\* bufr_filters.is_match(message, compiled_filters, required=False) on a
\* packed message: no header key of the message fails a filter
is_match(m, flt) ==
    \A i \in 1..Len(flt) :
        (flt[i].k \in HeaderKeys /\ MsgHas(m, flt[i].k))
            => Match(flt[i].v, MsgGet(m, flt[i].k))

\* lines 208-215: required_columns as a set; the caller gives a bool, an
\* iterable of names or something else
RequiredValid(rc) == rc.kind \in {"bool", "iterable"}
RequiredSet(rc, cols) ==
    IF rc.kind = "bool"
    THEN (IF rc.value THEN {cols[i] : i \in 1..Len(cols)} ELSE {})
    ELSE rc.names

\* lines 219-224: included_keys; no column or filter of the model names a
\* computed key of bufr_read.COMPUTED_KEYS
included_keys(flt, cols) ==
    {flt[i].k : i \in 1..Len(flt)} \cup {cols[i] : i \in 1..Len(cols)}

\* lines 226-229: max_count
max_count(flt) ==
    IF DictHas(flt, <<"count">>) THEN FilterMax(flt[CHOOSE i \in 1..Len(flt) : flt[i].k = <<"count">>])
    ELSE NoneVal

\* lines 179-188 when no computed key is included: a copy of the observation
add_computed_keys(observation, included) == observation

\* line 253: the items of the observation whose name is a column, in order
InList(cols, k) == \E i \in 1..Len(cols) : cols[i] = k
DataOf(observation, cols) == SelectSeq(observation, LAMBDA e : InList(cols, e.k))

\* no extract_observations generator is open
NoObservations == [out |-> <<>>, raised |-> FALSE]

\* line 249: extract_observations is called on the list fk that
\* filter_keys_cached returned; the generator yields st.observations.out in
\* order and then returns or raises
StreamExtract(st, m, fk, flt, cols) ==
    [st EXCEPT
        !.observations =
            extract_observations(m, fk, flt,
                IF <<"count">> \in included_keys(flt, cols)
                THEN <<[k |-> <<"count">>, v |-> IntVal(st.count)]>> ELSE <<>>),
        !.pc = "message"]

\* lines 108-110 within filter_stream: on a miss the list is stored
StreamCached(st, m, uid, inc, flt, cols) ==
    IF CacheMiss(st.cache, uid)
    THEN StreamExtract([st EXCEPT !.heap = Append(st.heap, filter_keys(m, include_uid(inc))),
                                  !.cache = DictSet(st.cache, uid, Len(st.heap) + 1)],
                       m, filter_keys(m, include_uid(inc)), flt, cols)
    ELSE StreamExtract(st, m, st.heap[DictGet(st.cache, uid)], flt, cols)

\* lines 232-249: "for count, message in enumerate(...)" pulls the message m
\* and runs up to the loop over its observations; st = [count, cache, heap,
\* unpacked, observations, out, pc] is the state of the generator
StreamStep(st, m, flt, cols, pre) ==
    IF DictHas(flt, <<"count">>) /\ ~Match(DictGet(flt, <<"count">>), IntVal(st.count + 1))
    THEN [st EXCEPT !.count = st.count + 1]
    ELSE IF pre /\ is_match(m, flt)
    THEN [st EXCEPT !.count = st.count + 1]
    ELSE IF UidRaises(m)
    THEN [st EXCEPT !.count = st.count + 1,
                    !.unpacked = Append(st.unpacked, st.count + 1), !.pc = "raised"]
    ELSE StreamCached([st EXCEPT !.count = st.count + 1,
                                 !.unpacked = Append(st.unpacked, st.count + 1)],
                      m, filtered_message_uid(m, included_keys(flt, cols)),
                      included_keys(flt, cols), flt, cols)

\* lines 249-255 for the next observation of the message: its data is
\* yielded when it holds the required columns
StreamYield(st, flt, cols, rc) ==
    LET data == DataOf(add_computed_keys(Head(st.observations.out),
                                         included_keys(flt, cols)), cols)
    IN  [st EXCEPT
            !.observations.out = Tail(st.observations.out),
            !.out = IF \A k \in RequiredSet(rc, cols) : DictHas(data, k)
                    THEN Append(st.out, [count |-> st.count, data |-> data])
                    ELSE st.out]

\* the observations of the message are exhausted: extract_observations
\* raised, or lines 257-259 break or go on to the next message
StreamBreak(st, flt) ==
    [st EXCEPT
        !.observations = NoObservations,
        !.pc = IF st.observations.raised THEN "raised"
               ELSE IF max_count(flt) # NoneVal /\ st.count >= max_count(flt).n
               THEN "done"
               ELSE "loop"]

\* the generator's state
StreamState ==
    [count |-> count, cache |-> cache, heap |-> heap, unpacked |-> unpacked,
     observations |-> observations, out |-> out, pc |-> pc]

\* filter_stream(...) is called: a generator function returns its generator,
\* none of its body has run
StreamCall ==
    /\ pc = "call"
    /\ pc' = "created"
    /\ UNCHANGED <<message, include, filtered_keys>>
    /\ UNCHANGED structVars /\ UNCHANGED extractVars /\ UNCHANGED cacheVars
    /\ UNCHANGED streamVars

\* the first next() runs lines 208-231
StreamStart ==
    /\ pc = "created"
    /\ pc' = IF RequiredValid(required_columns) THEN "loop" ELSE "raised"
    /\ UNCHANGED <<message, include, filtered_keys>>
    /\ UNCHANGED structVars /\ UNCHANGED extractVars /\ UNCHANGED cacheVars
    /\ UNCHANGED streamVars

\* lines 232-249: the next message is pulled from the source; it is skipped,
\* or unpacked and its observations are opened
StreamMessage ==
    /\ pc = "loop"
    /\ count < Len(bufr_file)
    /\ \E st \in {StreamStep(StreamState, bufr_file[count + 1], filters, columns,
                              prefilter_headers)} :
           /\ count' = st.count /\ cache' = st.cache /\ heap' = st.heap
           /\ unpacked' = st.unpacked /\ observations' = st.observations
           /\ pc' = st.pc
    /\ UNCHANGED <<message, include, filtered_keys, calls, last, out>>
    /\ UNCHANGED <<bufr_file, columns, required_columns, prefilter_headers>>
    /\ UNCHANGED structVars
    /\ UNCHANGED <<base_observation, subset_count, subset, idx,
                   current_observation, current_levels, failed_match_level,
                   value_cache, records, skipped, filters>>

\* lines 249-255: the next observation of the message; at the yield of line
\* 255 the generator is suspended and the consumer holds the record
StreamObservation ==
    /\ pc = "message"
    /\ observations.out # <<>>
    /\ \E st \in {StreamYield(StreamState, filters, columns, required_columns)} :
           /\ observations' = st.observations /\ out' = st.out
    /\ UNCHANGED <<pc, message, include, filtered_keys>>
    /\ UNCHANGED <<bufr_file, columns, required_columns, prefilter_headers, count,
                   unpacked>>
    /\ UNCHANGED structVars /\ UNCHANGED extractVars /\ UNCHANGED cacheVars

\* lines 249 and 257-259: the observations of the message are exhausted
StreamMessageEnd ==
    /\ pc = "message"
    /\ observations.out = <<>>
    /\ \E st \in {StreamBreak(StreamState, filters)} :
           /\ observations' = st.observations /\ pc' = st.pc
    /\ UNCHANGED <<message, include, filtered_keys>>
    /\ UNCHANGED <<bufr_file, columns, required_columns, prefilter_headers, count,
                   unpacked, out>>
    /\ UNCHANGED structVars /\ UNCHANGED extractVars /\ UNCHANGED cacheVars

\* line 232: the source is exhausted, the generator returns
StreamExhausted ==
    /\ pc = "loop"
    /\ count >= Len(bufr_file)
    /\ pc' = "done"
    /\ UNCHANGED <<message, include, filtered_keys>>
    /\ UNCHANGED structVars /\ UNCHANGED extractVars /\ UNCHANGED cacheVars
    /\ UNCHANGED streamVars

(* The inputs of filter_stream. *)

\* the header of test_filter_keys_cached with a pressure and a temperature;
\* the same with edition 4; and a message of the same descriptors whose
\* group is replicated twice
StreamHeaders ==
    {[TestHeader EXCEPT !.data = <<Pressure, Temperature>>],
     [TestHeader EXCEPT !.edition = IntVal(4), !.data = <<Pressure, Temperature>>],
     [TestHeader EXCEPT !.extended = IntVal(2),
                        !.data = <<Pressure, Temperature, Pressure, Temperature>>]}
StreamMessages == {HeaderMessage(h) : h \in StreamHeaders}

\* the counts a filter without upper bound accepts in the model
CountCeiling == 9

\* compiled filters: BufrFilter(slice(None, 2)), BufrFilter({2}),
\* BufrFilter(slice(2, None)) on count, BufrFilter({3}) on edition,
\* BufrFilter({1}) on pressure
CountUpTo(n) == [k |-> <<"count">>, v |-> 1..n, hi |-> IntVal(n)]
CountIs(n) == [k |-> <<"count">>, v |-> {n}, hi |-> IntVal(n)]
CountFrom(n) == [k |-> <<"count">>, v |-> n..CountCeiling, hi |-> NoneVal]
EditionIs(n) == [k |-> <<"edition">>, v |-> {n}, hi |-> IntVal(n)]
PressureIs(n) == [k |-> <<"pressure">>, v |-> {n}, hi |-> IntVal(n)]
StreamFilterChoices ==
    {<<>>, <<CountUpTo(2)>>, <<CountIs(2)>>, <<CountFrom(2)>>, <<EditionIs(3)>>,
     <<CountUpTo(2), EditionIs(3)>>, <<CountUpTo(1), EditionIs(3)>>,
     <<PressureIs(1)>>}

ColumnChoices ==
    {<<<<"temperature">>>>, <<<<"count">>, <<"pressure">>, <<"temperature">>>>,
     <<<<"edition">>, <<"temperature">>>>}

\* True, False, ["pressure"] and a value that is neither
RequiredChoices ==
    {[kind |-> "bool", value |-> TRUE, names |-> {}],
     [kind |-> "bool", value |-> FALSE, names |-> {}],
     [kind |-> "iterable", value |-> FALSE, names |-> {<<"pressure">>}],
     [kind |-> "invalid", value |-> FALSE, names |-> {}]}

InitStream ==
    /\ pc = "call"
    /\ bufr_file \in UNION {[1..n -> StreamMessages] : n \in 0..MaxMessages}
    /\ filters \in StreamFilterChoices
    /\ columns \in ColumnChoices
    /\ required_columns \in RequiredChoices
    /\ prefilter_headers \in BOOLEAN
    /\ count = 0 /\ unpacked = <<>> /\ out = <<>>
    /\ observations = NoObservations
    /\ message = <<>> /\ include = <<>> /\ filtered_keys = <<>>
    /\ pos = 0 /\ level = 0 /\ coords = <<>> /\ structure = <<>>
    /\ base_observation = <<>> /\ subset_count = 0
    /\ subset = 0 /\ idx = 0 /\ current_observation = <<>>
    /\ current_levels = <<>> /\ failed_match_level = NoLevel
    /\ value_cache = <<>> /\ records = <<>> /\ skipped = <<>>
    /\ CacheIdle

NextStream ==
    StreamCall \/ StreamStart \/ StreamMessage \/ StreamObservation
    \/ StreamMessageEnd \/ StreamExhausted

SpecStream == InitStream /\ [][NextStream]_vars

(* The records of both producers: extract_observations called on its own,   *)
(* or filter_stream.                                                         *)

InitRecords == InitExtract \/ InitStream

NextRecords == NextExtract \/ NextStream

SpecRecords == InitRecords /\ [][NextRecords]_vars

-----------------------------------------------------------------------------
(* Claims about the Level Assigner and the Key Filter. *)

LevelsOf(pairs) == [i \in 1..Len(pairs) |-> pairs[i][1]]
LastIndexOf(d, k) == SetMax({i \in 1..Len(d) : d[i].k = k})

\* the steps of message_structure on a coordinate key whose name is on the
\* stack: up to the yield the stack keeps exactly the entries before the entry
\* of that name and the key is yielded at the level stored with that entry;
\* after it the stack gets the name anew at that level
ReopenPopsExactly ==
    /\ (pc = "structure" /\ pc' = "yielded"
        /\ is_coord(message, message.keys[pos])
        /\ DictHas(coords, rpartition(message.keys[pos])[3]))
       => LET name == rpartition(message.keys[pos])[3]
              i == LastIndexOf(coords, name)
          IN  /\ coords' = SubSeq(coords, 1, i - 1)
              /\ structure'[Len(structure')] = <<coords[i].v, message.keys[pos]>>
              /\ level' = coords[i].v
    /\ (pc = "yielded" /\ pc' = "structure" /\ is_coord(message, message.keys[pos]))
       => /\ coords' = Append(coords, [k |-> rpartition(message.keys[pos])[3],
                                       v |-> structure[pos][1]])
          /\ level' = structure[pos][1] + 1

TestStructureLevels ==
    (pc = "done" /\ message = TestStructureMessage)
    => SubSeq(LevelsOf(structure), 1, 9) = <<0, 0, 0, 1, 2, 1, 2, 0, 1>>

\* C1: reopening a coordinate name pops exactly the entry of that name and the
\* entries inserted after it and yields the key at the level stored with that
\* name; the stream of test_message_structure gets levels 0,0,0,1,2,1,2,0,1
C1_ReopenPopsExactly == [][ReopenPopsExactly]_vars /\ []TestStructureLevels

\* the stream of test_message_structure has been walked: "#2#subsetNumber"
\* popped latitude and subsetNumber
C1_Witness ==
    /\ pc = "done" /\ message = TestStructureMessage
    /\ Len(structure) = 11
    /\ structure[8] = <<0, Ranked(2, "subsetNumber")>>
    /\ coords = <<[k |-> <<"subsetNumber">>, v |-> 0]>>

\* C2: the first level is 0, no level is negative, and a level exceeds the
\* level of the key before it by at most 1, and by 1 only after a coordinate key
C2_LevelsBounded ==
    /\ Len(structure) > 0 => structure[1][1] = 0
    /\ \A i \in 1..Len(structure) : structure[i][1] >= 0
    /\ \A i \in 2..Len(structure) :
          /\ structure[i][1] <= structure[i - 1][1] + 1
          /\ structure[i][1] = structure[i - 1][1] + 1
                => is_coord(message, structure[i - 1][2])

\* a stream with a rise after a coordinate key, a key that stays on the level
\* of a non-coordinate key, and a fall of two levels
C2_Witness ==
    /\ pc = "done"
    /\ \E i \in 2..Len(structure) : structure[i][1] = structure[i - 1][1] + 1
    /\ \E i \in 2..Len(structure) :
          /\ ~is_coord(message, structure[i - 1][2])
          /\ structure[i][1] = structure[i - 1][1]
    /\ \E i \in 2..Len(structure) : structure[i][1] = structure[i - 1][1] - 2

\* the (level, key text) pairs of a BufrKey list
RECURSIVE LevelKeyPairs(_)
LevelKeyPairs(bks) ==
    IF bks = <<>> THEN <<>>
    ELSE <<<<bks[1].level, BufrKey_key(bks[1])>>>> \o LevelKeyPairs(Tail(bks))

InTuple(inc, text) == \E i \in 1..Len(inc) : inc[i] = text

\* the pairs whose bare name or whose key is in inc, in order
RECURSIVE PairsIn(_, _)
PairsIn(pairs, inc) ==
    IF pairs = <<>> THEN <<>>
    ELSE (IF InTuple(inc, rpartition(pairs[1][2])[3]) \/ InTuple(inc, pairs[1][2])
          THEN <<pairs[1]>> ELSE <<>>) \o PairsIn(Tail(pairs), inc)

\* C7: with an empty include tuple filter_keys returns every key of the message
\* with its level, in order; with a non-empty one exactly the keys whose bare
\* name or full ranked key is in it, levels unchanged and order kept
C7_FilterKeysSelects ==
    pc = "done" =>
        /\ [i \in 1..Len(structure) |-> structure[i][2]] = message.keys
        /\ include = <<>> => LevelKeyPairs(filtered_keys) = structure
        /\ include # <<>> => LevelKeyPairs(filtered_keys) = PairsIn(structure, include)

\* a key was kept for its full ranked key alone, another for its bare name, a
\* third was dropped
C7_Witness ==
    /\ pc = "done"
    /\ \E i \in 1..Len(filtered_keys) :
          /\ InTuple(include, BufrKey_key(filtered_keys[i]))
          /\ ~InTuple(include, filtered_keys[i].name)
    /\ \E i \in 1..Len(filtered_keys) : InTuple(include, filtered_keys[i].name)
    /\ Len(filtered_keys) < Len(structure)

-----------------------------------------------------------------------------
(* Claims about the Observation Extractor. *)

\* a record as a mapping: Python compares dicts without their order
AsMapping(obs) == {<<obs[i].k, obs[i].v>> : i \in 1..Len(obs)}

\* the value extract_observations reads under a BufrKey for a subset
KeyValue(bufr_key, sub) ==
    SubsetValue(MsgGet(message, BufrKey_key(bufr_key)), subset_count, sub)

\* the observation holds every filtered name, and the value under a filtered
\* name satisfies the predicate of that name, unless it is the seeded value
\* of the base record
PassesFilters(obs, flt, base) ==
    \A f \in 1..Len(flt) :
        /\ DictHas(obs, flt[f].k)
        /\ \/ Match(flt[f].v, DictGet(obs, flt[f].k))
           \/ /\ DictHas(base, flt[f].k)
              /\ DictGet(base, flt[f].k) = DictGet(obs, flt[f].k)

\* every record extract_observations has yielded, called on its own or by
\* filter_stream, passes the filters
ExtractedPassFilters ==
    /\ \A r \in 1..Len(records) : PassesFilters(records[r].obs, filters, base_observation)
    /\ \A r \in 1..Len(observations.out) :
          PassesFilters(observations.out[r], filters, <<>>)

\* C4, as stated: every record extract_observations yields, and therefore
\* every record filter_stream yields, holds every filtered name, under it a
\* value that satisfies the predicate of the name
C4_RecordsHoldFilteredNames ==
    /\ ExtractedPassFilters
    /\ \A r \in 1..Len(out) : PassesFilters(out[r].data, filters, <<>>)

\* C4, amended: every record extract_observations yields holds every filtered
\* name, under it a value that satisfies the predicate of the name (or the
\* seeded value of the base record); a record filter_stream yields holds a
\* filtered name exactly when the name is a column, and then under it a value
\* that satisfies the predicate
C4_RecordsPassFilters ==
    /\ ExtractedPassFilters
    /\ \A r \in 1..Len(out) : \A f \in 1..Len(filters) :
          IF InList(columns, filters[f].k)
          THEN /\ DictHas(out[r].data, filters[f].k)
               /\ Match(filters[f].v, DictGet(out[r].data, filters[f].k))
          ELSE ~DictHas(out[r].data, filters[f].k)

\* filter_stream yielded a record from a message in which a pressure passed
\* its filter and another failed it, with pressure a column
C4_Witness ==
    /\ pc = "done" /\ Len(out) > 0
    /\ filters = <<PressureIs(1)>> /\ InList(columns, <<"pressure">>)
    /\ \E c \in 1..Len(unpacked) :
          /\ MsgHas(bufr_file[unpacked[c]], Ranked(2, "pressure"))
          /\ \E r \in 1..Len(out) : out[r].count = unpacked[c]

\* a record was yielded from a message in which a key of the filtered name
\* failed the filter and another passed
C4_ExtractWitness ==
    /\ pc = "done"
    /\ Len(records) > 0
    /\ \E f \in 1..Len(filters) :
          /\ \E i \in 1..Len(filtered_keys) :
                /\ filtered_keys[i].name = filters[f].k
                /\ ~Match(filters[f].v, KeyValue(filtered_keys[i], 0))
          /\ \E r \in 1..Len(records) :
                /\ DictHas(records[r].obs, filters[f].k)
                /\ DictGet(records[r].obs, filters[f].k).t = "int"
                /\ ~DictHas(base_observation, filters[f].k)

\* C6: every yielded record holds every entry of the base record, unchanged
C6_BaseKept ==
    \A r \in 1..Len(records) : \A b \in 1..Len(base_observation) :
        /\ DictHas(records[r].obs, base_observation[b].k)
        /\ DictGet(records[r].obs, base_observation[b].k) = base_observation[b].v

\* the keys before i whose filter failed and whose group is still open at i:
\* no key from j + 1 to i - 1 lies above the level of j, and i lies below it
FailedAncestors(i, sub) ==
    {j \in 1..(i - 1) :
        /\ DictHas(filters, filtered_keys[j].name)
        /\ ~Match(DictGet(filters, filtered_keys[j].name), KeyValue(filtered_keys[j], sub))
        /\ filtered_keys[i].level > filtered_keys[j].level
        /\ \A k \in (j + 1)..(i - 1) : filtered_keys[k].level >= filtered_keys[j].level}

\* C5: a key is skipped only inside the subtree of a key whose filter failed:
\* it lies below the failed key, and no key between the two closed the group
\* of the failed key by returning to a level above it
C5_SkipsOnlyFailedSubtree ==
    (pc = "keys" /\ idx <= Len(filtered_keys)
     /\ SkipKey(failed_match_level, filtered_keys[idx].level))
    => FailedAncestors(idx, subset) # {}

(* The hierarchy the key levels imply, walked with one stack of open keys.   *)
(* A key of level l closes the open keys below l and, when its name is open  *)
(* on level l, the open keys of level l back to that name: the path open     *)
(* before such a close is maximal.  A key whose filter fails is not on any   *)
(* path, nor are the keys below its level that follow it, up to the next key *)
(* above its level or the next key whose filter passes.                      *)

OpenOnLevel(path, lvl, name) ==
    \E i \in 1..Len(path) : path[i].level = lvl /\ path[i].name = name

PathCloses(path, lvl, name) ==
    /\ Len(path) > 0
    /\ \/ path[Len(path)].level > lvl
       \/ (path[Len(path)].level = lvl /\ OpenOnLevel(path, lvl, name))

RECURSIVE ClosePath(_, _, _)
ClosePath(path, lvl, name) ==
    IF PathCloses(path, lvl, name)
    THEN ClosePath(SubSeq(path, 1, Len(path) - 1), lvl, name)
    ELSE path

\* the record of a path: the base record, then the open keys, a deeper key
\* of a name over a shallower one
RECURSIVE PathRecord(_, _)
PathRecord(rec, path) ==
    IF path = <<>> THEN rec
    ELSE PathRecord(DictSet(rec, path[1].name, path[1].value), Tail(path))

\* the records of the maximal paths of one subset that hold every filtered
\* name, in source order; final: the path is the one open after the last key
RECURSIVE PathRecordsFrom(_, _, _, _)
PathRecordsFrom(i, path, dead, sub) ==
    IF i > Len(filtered_keys)
    THEN (IF AllFiltersPresent(filters, PathRecord(base_observation, path))
          THEN <<[m |-> AsMapping(PathRecord(base_observation, path)), final |-> TRUE]>>
          ELSE <<>>)
    ELSE LET bk == filtered_keys[i]
             value == KeyValue(bk, sub)
             closed == ClosePath(path, bk.level, bk.name)
             passes == ~DictHas(filters, bk.name)
                       \/ Match(DictGet(filters, bk.name), value)
             emitted == IF PathCloses(path, bk.level, bk.name)
                           /\ AllFiltersPresent(filters, PathRecord(base_observation, path))
                        THEN <<[m |-> AsMapping(PathRecord(base_observation, path)),
                                 final |-> FALSE]>>
                        ELSE <<>>
         IN  IF dead # NoLevel /\ bk.level > dead
             THEN PathRecordsFrom(i + 1, path, dead, sub)
             ELSE emitted \o
                  (IF passes
                   THEN PathRecordsFrom(i + 1,
                            Append(closed, [name |-> bk.name, level |-> bk.level,
                                            value |-> value]),
                            IF DictHas(filters, bk.name) \/ bk.level < dead
                            THEN NoLevel ELSE dead,
                            sub)
                   ELSE PathRecordsFrom(i + 1, closed, bk.level, sub))

RECURSIVE PathRecordsOfSubsets(_)
PathRecordsOfSubsets(sub) ==
    IF sub >= subset_count THEN <<>>
    ELSE PathRecordsFrom(1, <<>>, NoLevel, sub) \o PathRecordsOfSubsets(sub + 1)

\* C3: the yielded records are the records of the maximal paths that hold
\* every filtered name, each once and in source order, and the path open after
\* the last key of a subset is yielded by the emission after the loop
C3_OneRecordPerPath ==
    pc = "done" =>
        [r \in 1..Len(records) |->
            [m |-> AsMapping(records[r].obs), final |-> records[r].final]]
        = PathRecordsOfSubsets(0)

-----------------------------------------------------------------------------
(* Claims about the Structure Cache. *)

\* C8: a call returns the list the uncached filter_keys computes for its
\* message and include
C8_CachedEqualsUncached ==
    \A i \in 1..Len(last) :
        heap[last[i].result] = filter_keys(last[i].message, include_uid(last[i].include))

\* a call hits: its key is in the cache before it runs
HitCall(m, inc) ==
    /\ pc = "cache" /\ Len(calls') = Len(calls) + 1
    /\ calls'[Len(calls')] = [message |-> m, include |-> inc]
    /\ ~UidRaises(m)
    /\ DictHas(cache, filtered_message_uid(m, inc))

\* C9: a call whose key is in the cache returns the list object stored under
\* it, allocates no list (filter_keys and message_structure do not run) and
\* leaves the cache as it was
C9_HitReturnsStored ==
    [][\A m \in CacheMessages : \A inc \in CacheIncludes :
          HitCall(m, inc) =>
             /\ last'[1].result = DictGet(cache, filtered_message_uid(m, inc))
             /\ heap' = heap
             /\ cache' = cache]_vars

\* the last call hit an entry an earlier call stored
C9_Witness ==
    /\ Len(last) = 1 /\ last[1].hit
    /\ Len(calls) = 3 /\ Len(cache) = 2
    /\ last[1].result = 1

\* the fields the fingerprint is derived from, kept apart: a scalar is the
\* sequence of its one element, an absent replication factor the empty one
AsSequence(v) ==
    IF v.t = "int" THEN <<v.n>> ELSE [i \in 1..Len(v.a) |-> v.a[i].n]
Fingerprint(m) ==
    [edition |-> MsgGet(m, <<"edition">>).n,
     masterTableNumber |-> MsgGet(m, <<"masterTableNumber">>).n,
     numberOfSubsets |-> MsgGet(m, <<"numberOfSubsets">>).n,
     descriptors |-> AsSequence(MsgGet(m, <<"unexpandedDescriptors">>)),
     delayed |-> IF MsgHas(m, <<"delayedDescriptorReplicationFactor">>)
                 THEN AsSequence(MsgGet(m, <<"delayedDescriptorReplicationFactor">>))
                 ELSE <<>>]
PairsSeen ==
    {<<Fingerprint(calls[i].message), calls[i].include>> : i \in 1..Len(calls)}

CacheSizeIsPairsSeen == Len(cache) = Cardinality(PairsSeen)

EntriesStay ==
    \A i \in 1..Len(cache) : Len(cache') >= i /\ cache'[i] = cache[i]

\* C10: the cache holds one entry per distinct (fingerprint, include set) pair
\* seen, and no entry is ever removed or replaced
C10_OneEntryPerPair == []CacheSizeIsPairsSeen /\ [][EntriesStay]_vars

\* three calls that differ pairwise in the fingerprint or the include set
C10_Witness ==
    /\ Len(calls) = 3 /\ Len(cache) = 3
    /\ \E i, j \in 1..3 :
          /\ Fingerprint(calls[i].message) = Fingerprint(calls[j].message)
          /\ calls[i].include # calls[j].include
    /\ \E i, j \in 1..3 :
          /\ Fingerprint(calls[i].message).descriptors
                \o Fingerprint(calls[i].message).delayed
             = Fingerprint(calls[j].message).descriptors
                \o Fingerprint(calls[j].message).delayed
          /\ Fingerprint(calls[i].message) # Fingerprint(calls[j].message)

-----------------------------------------------------------------------------
(* Claims about the classification of keys. *)

\* the code of the key, when message[key + "->code"] returns one
HasCode(key) == MsgHas(message, CodeKey(key))
FirstThreeDigits(key) ==
    LET code == MsgGet(message, CodeKey(key)).s
    IN  100 * code[1] + 10 * code[2] + code[3]

\* the classification the claim gives the key
ClaimedCoordinate(key) ==
    LET name == key[Len(key)]
    IN  IF name = "subsetNumber" THEN TRUE
        ELSE IF name = "operator" THEN FALSE
        ELSE HasCode(key) /\ FirstThreeDigits(key) < 10

\* message_structure, resumed after the yield of the key, handled it as a
\* coordinate: its name is on the stack at the level it was yielded at, and a
\* level is opened
HandledAsCoordinate ==
    LET key == message.keys[pos]
        yielded == structure[pos]
    IN  /\ DictHas(coords', <<key[Len(key)]>>)
        /\ DictLast(coords') = [k |-> <<key[Len(key)]>>, v |-> yielded[1]]
        /\ level' = yielded[1] + 1

\* ... as a non-coordinate: the stack and the level stay as they are
HandledAsNonCoordinate == coords' = coords /\ level' = level

ClassifiedAsClaimed ==
    \* up to the yield, a non-coordinate key pops nothing and keeps the level
    /\ (pc = "structure" /\ pc' = "yielded" /\ ~ClaimedCoordinate(message.keys[pos]))
       => /\ HandledAsNonCoordinate
          /\ structure'[pos] = <<level, message.keys[pos]>>
    /\ (pc = "yielded" /\ pc' = "structure") =>
          IF ClaimedCoordinate(message.keys[pos])
          THEN HandledAsCoordinate ELSE HandledAsNonCoordinate

\* C16: subsetNumber is always handled as a coordinate and operator never,
\* with or without a code; any other key is a coordinate exactly when it has
\* a code whose first three digits are below 10; no call raises
C16_ClassifiedByNameThenCode ==
    [][ClassifiedAsClaimed]_vars /\ [](pc # "raised")

\* a coded subsetNumber (class 31) opened a level, a coded operator (class 1)
\* did not, a key of class 10 did not and a key without code did not
C16_Witness ==
    /\ pc = "done" /\ Len(message.keys) = 4
    /\ message.keys = <<Ranked(1, "operator"), Ranked(1, "subsetNumber"),
                        Ranked(1, "nonCoordinatePressure"), <<"edition">>>>
    /\ HasCode(Ranked(1, "operator")) /\ HasCode(Ranked(1, "subsetNumber"))
    /\ [i \in 1..4 |-> structure[i][1]] = <<0, 0, 1, 1>>

\* C17: when no key of the message is a coordinate, message_structure yields
\* one pair per key, in key order, every level 0
C17_FlatWithoutCoordinates ==
    (pc = "done" /\ \A i \in 1..Len(message.keys) : ~ClaimedCoordinate(message.keys[i]))
    => structure = [i \in 1..Len(message.keys) |-> <<0, message.keys[i]>>]

\* four keys, none a coordinate: a coded operator, a key of class 10 and two
\* keys without code
C17_Witness ==
    /\ pc = "done"
    /\ message.keys = <<Ranked(1, "operator"), Ranked(1, "temperature"),
                        Ranked(1, "nonCoordinatePressure"), <<"edition">>>>
    /\ HasCode(Ranked(1, "operator"))
    /\ [i \in 1..4 |-> structure[i][1]] = <<0, 0, 0, 0>>

\* C19: in message_structure the level counter is the number of entries on
\* the coordinate stack, the names on the stack are pairwise distinct and the
\* levels stored are 0, 1, ..., n-1 in insertion order
C19_StackMirrorsLevel ==
    /\ level = Len(coords)
    /\ \A i, j \in 1..Len(coords) : i # j => coords[i].k # coords[j].k
    /\ \A i \in 1..Len(coords) : coords[i].v = i - 1

\* three levels were open, the third was closed again and two entries remain
C19_Witness ==
    /\ Len(coords) = 2 /\ level = 2
    /\ \E i \in 1..Len(structure) :
         /\ structure[i][1] = 2
         /\ is_coord(message, structure[i][2])
         /\ i < Len(structure)

-----------------------------------------------------------------------------
(* Claims about compressed messages. *)

\* the message is compressed and declares its subset count
IsCompressed(m) ==
    /\ MsgHas(m, <<"compressedData">>) /\ MsgGet(m, <<"compressedData">>).n # 0
    /\ MsgHas(m, <<"numberOfSubsets">>)
DeclaredSubsets(m) == MsgGet(m, <<"numberOfSubsets">>).n

\* every array under a filtered key has one element per subset
ArraysPerSubset ==
    \A i \in 1..Len(filtered_keys) :
        LET v == MsgGet(message, BufrKey_key(filtered_keys[i]))
        IN  v.t = "array" => Len(v.a) = DeclaredSubsets(message)

\* a float equal to the decoder's missing value is recorded as None
Decoded(v) == IF v.t = "float" /\ v.n = CODES_MISSING_DOUBLE THEN NoneVal ELSE v

\* the i-th of the records holds, under the name of every filtered key, the
\* i-th element of the key's array, or the key's value when it is no array
HoldsElements(i) ==
    \A j \in 1..Len(filtered_keys) :
        LET v == MsgGet(message, BufrKey_key(filtered_keys[j]))
            name == filtered_keys[j].name
        IN  /\ DictHas(records[i].obs, name)
            /\ DictGet(records[i].obs, name) =
                  Decoded(IF v.t = "array" THEN FromScalar(v.a[i]) ELSE v)

\* C11, as stated: a compressed message of N subsets whose arrays have length
\* N, extracted without filters, yields exactly N records; the i-th holds the
\* i-th element of every array and every other value unchanged (a missing
\* float reads as None)
C11_OneRecordPerSubset ==
    (pc = "done" /\ IsCompressed(message) /\ filters = <<>> /\ ArraysPerSubset)
    => /\ Len(records) = DeclaredSubsets(message)
       /\ \A i \in 1..Len(records) : HoldsElements(i)

\* no filtered key closes a group: the levels of the filtered keys never
\* fall, and no bare name occurs under two of them or in the base record
NoKeyCloses ==
    /\ \A i \in 2..Len(filtered_keys) :
          filtered_keys[i].level >= filtered_keys[i - 1].level
    /\ \A i, j \in 1..Len(filtered_keys) :
          i # j => filtered_keys[i].name # filtered_keys[j].name
    /\ \A i \in 1..Len(filtered_keys) :
          ~DictHas(base_observation, filtered_keys[i].name)

\* C11, amended: when moreover the levels of the filtered keys never fall and
\* no bare name occurs under two filtered keys or in the base record, the
\* message yields exactly N records, the i-th for subset i, holding the i-th
\* element of every array and every other value unchanged
C11_OneRecordPerSubsetWhenNoKeyCloses ==
    (pc = "done" /\ IsCompressed(message) /\ filters = <<>> /\ ArraysPerSubset
        /\ NoKeyCloses)
    => /\ Len(records) = DeclaredSubsets(message)
       /\ \A i \in 1..Len(records) :
            /\ records[i].subset = i - 1
            /\ records[i].final
            /\ HoldsElements(i)

\* two subsets, an array whose elements differ, two records
C11_Witness ==
    /\ pc = "done" /\ IsCompressed(message) /\ filters = <<>>
    /\ ArraysPerSubset /\ NoKeyCloses
    /\ DeclaredSubsets(message) = 2
    /\ Len(records) = 2
    /\ \E j \in 1..Len(filtered_keys) :
         LET v == MsgGet(message, BufrKey_key(filtered_keys[j]))
         IN  /\ v.t = "array" /\ v.a[1] # v.a[2]
             /\ DictGet(records[2].obs, filtered_keys[j].name) = FromScalar(v.a[2])

\* the stepwise generator and the function yield the same records
StepwiseAgrees ==
    pc \in {"done", "raised"} =>
        LET r == extract_observations(message, filtered_keys, filters, base_observation)
        IN  /\ r.raised = (pc = "raised")
            /\ r.out = [i \in 1..Len(records) |-> records[i].obs]

-----------------------------------------------------------------------------
(* Claims about filter_stream. *)

\* C12: with a count filter of upper bound N and a source of more than N
\* messages, message N+1 is never pulled, never unpacked and contributes no
\* record, and the stream ends after exactly N messages
C12_StopsAtUpperBound ==
    (pc \in {"loop", "done", "raised"} /\ max_count(filters) # NoneVal
        /\ Len(bufr_file) > max_count(filters).n)
    => /\ count <= max_count(filters).n
       /\ \A i \in 1..Len(unpacked) : unpacked[i] <= max_count(filters).n
       /\ \A i \in 1..Len(out) : out[i].count <= max_count(filters).n
       /\ pc = "done" => count = max_count(filters).n

\* filter_stream run to its end as a function of its arguments
RECURSIVE StreamRunFrom(_, _, _, _, _, _)
StreamRunFrom(st, src, flt, cols, rc, pre) ==
    IF st.pc = "loop" /\ st.count < Len(src)
    THEN StreamRunFrom(StreamStep(st, src[st.count + 1], flt, cols, pre),
                       src, flt, cols, rc, pre)
    ELSE IF st.pc = "message" /\ st.observations.out # <<>>
    THEN StreamRunFrom(StreamYield(st, flt, cols, rc), src, flt, cols, rc, pre)
    ELSE IF st.pc = "message"
    THEN StreamRunFrom(StreamBreak(st, flt), src, flt, cols, rc, pre)
    ELSE [st EXCEPT !.pc = IF st.pc = "loop" THEN "done" ELSE st.pc]
StreamRun(src, flt, cols, rc, pre) ==
    StreamRunFrom([count |-> 0, cache |-> <<>>, heap |-> <<>>, unpacked |-> <<>>,
                   observations |-> [out |-> <<>>, raised |-> FALSE],
                   out |-> <<>>, pc |-> "loop"], src, flt, cols, rc, pre)

\* the message number c reaches the header pre-filter
ReachesPrefilter(c) ==
    DictHas(filters, <<"count">>) => Match(DictGet(filters, <<"count">>), IntVal(c))

\* C13: with prefilter_headers on, a pulled message is left packed exactly
\* when its header keys fail a filter, and the records yielded are those of
\* the same call with prefilter_headers off
C13_PrefilterOnlySkipsFailures ==
    (prefilter_headers /\ pc \in {"loop", "done"})
    => /\ \A c \in 1..count :
            ReachesPrefilter(c) =>
                ((\A i \in 1..Len(unpacked) : unpacked[i] # c)
                     <=> ~is_match(bufr_file[c], filters))
       /\ pc = "done" =>
            out = StreamRun(bufr_file, filters, columns, required_columns, FALSE).out

\* C14: a call with a required_columns that is neither a bool nor an iterable
\* is rejected by the call itself, before any message is pulled or modified
C14_InvalidRequiredRejectedAtCall ==
    ~RequiredValid(required_columns)
    => /\ pc \in {"call", "raised"}
       /\ count = 0 /\ unpacked = <<>> /\ out = <<>>

\* the records of the subset sub among those yielded
RecordsOfSubset(sub) ==
    LET mine == SelectSeq(records, LAMBDA r : r.subset = sub)
    IN  [i \in 1..Len(mine) |-> mine[i].obs]

\* a subset starts from the base record, the levels [0] and no failed level,
\* and with the value cache as the subsets before left it
FreshAtSubsetBegin ==
    (pc = "subset" /\ pc' = "keys")
    => /\ current_observation' = base_observation
       /\ current_levels' = <<0>>
       /\ failed_match_level' = NoLevel
       /\ value_cache' = value_cache

\* the records of every subset are those the keys yield from the fresh state
\* on that subset's values alone
SubsetsIndependent ==
    pc = "done" =>
        \A sub \in 0..(subset_count - 1) :
            RecordsOfSubset(sub) =
                SubsetRecords(message, filtered_keys, filters, base_observation,
                              subset_count, sub).out

\* C18: every subset of a compressed message starts from fresh per-subset
\* state; a filter failure or an attribute of subset i never suppresses or
\* alters a record of a later subset; only value_cache carries over
C18_SubsetsStartFresh == [][FreshAtSubsetBegin]_vars /\ []SubsetsIndependent

\* the filter failed on the element of the first subset, which has no
\* record; the second subset has its record
C18_Witness ==
    /\ pc = "done" /\ IsCompressed(message) /\ subset_count = 2
    /\ filters # <<>>
    /\ RecordsOfSubset(0) = <<>>
    /\ Len(RecordsOfSubset(1)) = 1
    /\ \E j \in 1..Len(filtered_keys) :
         /\ DictHas(filters, filtered_keys[j].name)
         /\ DictHas(value_cache, BufrKey_key(filtered_keys[j]))
         /\ DictGet(value_cache, BufrKey_key(filtered_keys[j])).t = "array"

\* C20: on the keys of the Level Assigner and a base record that shares no
\* name with them, current_levels is never empty when its top is read, its
\* bottom entry 0 is never popped, and the backtracking loop of every key
\* ends (no call raises IndexError)
C20_LevelsNeverEmpty ==
    /\ pc # "raised"
    /\ pc \in {"keys", "emitted"} =>
                      /\ Len(current_levels) >= 1
                      /\ current_levels[1] = 0
                      /\ \A i \in 1..Len(base_observation) : \A j \in 1..Len(filtered_keys) :
                            base_observation[i].k # filtered_keys[j].name

\* the loop popped down into a base record of two names (a yielded record
\* lacks "edition") and the call still ended without raising
C20_Witness ==
    /\ pc = "done" /\ base_observation = TwoEntryBase
    /\ \E i \in 1..Len(records) : ~DictHas(records[i].obs, <<"edition">>)

-----------------------------------------------------------------------------
(* Claims about absent header fields. *)

\* C15, as stated: a message that lacks one of edition, masterTableNumber,
\* numberOfSubsets, unexpandedDescriptors, delayedDescriptorReplicationFactor
\* or compressedData never makes a call raise
C15_AbsenceNeverFatal == pc # "raised"

\* the message of the last filter_keys_cached call
LastCalled == calls[Len(calls)].message

\* the fingerprint of m when it holds an empty delayedDescriptorReplicationFactor
WithEmptyDelayed(m) ==
    [keys |-> m.keys,
     items |-> (<<"delayedDescriptorReplicationFactor">> :> ListVal(<<>>)) @@ m.items]

\* C15, amended: an absent delayedDescriptorReplicationFactor reads as the
\* empty sequence and an absent compressedData as False; make_message_uid and
\* filter_keys_cached raise exactly when edition, masterTableNumber,
\* numberOfSubsets or unexpandedDescriptors is absent, and
\* extract_observations raises exactly when the message is compressed and
\* numberOfSubsets is absent
C15_OnlyOptionalFieldsDefault ==
    /\ Len(calls) > 0 =>
         /\ pc = "raised" <=> \E k \in UidKeys : ~MsgHas(LastCalled, k)
         /\ (pc # "raised" /\ ~MsgHas(LastCalled, <<"delayedDescriptorReplicationFactor">>))
               => /\ Len(last) = 1 /\ last[1].message = LastCalled
                  /\ DictHas(cache, filtered_message_uid(WithEmptyDelayed(LastCalled),
                                                          last[1].include))
    /\ (Len(calls) = 0 /\ pc \notin {"cache", "extract"}) =>
         /\ pc = "raised" <=>
               /\ MsgHas(message, <<"compressedData">>)
               /\ ~MsgHas(message, <<"numberOfSubsets">>)
         /\ (pc = "done" /\ ~MsgHas(message, <<"compressedData">>))
               \* the message is read as one subset
               => /\ subset_count = 1
                  /\ Len(records) > 0
                  /\ [r \in 1..Len(records) |-> records[r].obs]
                        = SubsetRecords(message, filtered_keys, filters,
                                        base_observation, 1, 0).out

\* a call on a message without delayedDescriptorReplicationFactor stored its
\* list, then a call on a message without edition raised
C15_Witness ==
    /\ Len(calls) = 2 /\ pc = "raised" /\ Len(cache) = 1
    /\ ~MsgHas(calls[1].message, <<"delayedDescriptorReplicationFactor">>)
    /\ ~MsgHas(calls[2].message, <<"edition">>)


=============================================================================
